---- MODULE Spec2Model ----
(***************************************************************************)
(* Link-resilience subsystem of mcu-apple-bridge: the USB NCM link session *)
(* (main/network_setup.c), its recovery watchdog, the sticky event log     *)
(* (main/event_log.c) and the circular log buffer (main/log_stream.c).     *)
(*                                                                         *)
(* Execution contexts: the TinyUSB task delivers the tud_*_cb and receive  *)
(* callbacks one at a time; the watchdog task runs usb_watchdog_task; the  *)
(* main task runs network_init.  A task is preempted between the blocks    *)
(* the actions below model; the clock advances while tasks sleep.          *)
(***************************************************************************)
EXTENDS Integers, Sequences, FiniteSets, TLC

\* ------------------------------------------------------------------------
\* Configuration knobs of network_setup.c (milliseconds)
\* ------------------------------------------------------------------------
USB_LINK_KICK_DELAY_MS == 250
USB_NO_RX_GRACE_MS == 2000
USB_RECOVER_DETACH_MS == 400
USB_RECOVER_POST_ATTACH_MS == 400
USB_RECOVER_LOOP_PERIOD_MS == 250
USB_RECOVER_MAX_ATTEMPTS == 5
USB_RECOVER_BACKOFF_START_MS == 2500
USB_RECOVER_BACKOFF_MAX_MS == 15000
\* netif_transmit: for (int attempt = 0; attempt < 3; attempt++)
TX_ATTEMPTS == 3

\* ------------------------------------------------------------------------
\* Bounds of the model
\* ------------------------------------------------------------------------
\* Width of the millisecond clock.  The source keeps uint32_t timestamps;
\* the model keeps the modular subtraction in a narrower word, wide enough
\* that the clock itself never wraps within the horizons below.
TimeBits == 17
\* now_ms() when network_init starts.
BootMs == 100
\* Horizon of the interleaving specification Spec.
MaxTime == 4000
\* SpecCycle: the host mounts the device for the first time within MaxIdle
\* of boot, and a mount cycle is followed for MaxTimeCycle.
MaxIdle == 1000
MaxTimeCycle == 64000
\* Driver callbacks delivered in one behaviour of Spec / of SpecCycle.
MaxCallbacks == 2
MaxMounts == 1
\* Horizon and enumerations of the re-enumeration specification SpecReattach.
MaxTimeReattach == 16000
MaxReenum == 6
\* Capacity of the event record sequence (MAX_EVENTS, 30 in event_log.c).
MAX_EVENTS == 5
\* Size of a detail field (MAX_DETAIL_LEN, 64 in event_log.c).
MAX_DETAIL_LEN == 4

\* log_stream.c, scaled: LOG_BUFFER_LINES is 100, LOG_LINE_MAX_LEN 256 and
\* MAX_READERS 4 in the source.
LOG_BUFFER_LINES == 3
LOG_LINE_MAX_LEN == 3
MAX_READERS == 2
\* Lines stored by log_buffer_add in one behaviour.
MaxWrites == 5
\* Reader calls (alloc, free, read) in one behaviour of SpecReaders.
MaxReaderCalls == 6
\* SpecTx: driver callbacks, netif_transmit calls and the clock's horizon.
MaxTxCallbacks == 2
MaxTxCalls == 2
MaxTimeTx == 1500
\* SpecSetLink: usb_set_link_state calls of one behaviour.
MaxSetLinkCalls == 4
\* SpecRx: driver callbacks of one behaviour.
MaxRxCallbacks == 4
\* SpecLocks: the calls of one behaviour.
MaxLockCalls == 3
\* SpecSse: the stream handlers of one behaviour, and the empty polls before
\* a keepalive (MAX_IDLE, 100 in the source).
MaxHandlers == 2
MAX_IDLE == 2
\* Event log calls (record, has) in one behaviour of SpecEvents.
MaxEventCalls == 7
\* SpecClassify: driver callbacks of one behaviour and the clock's horizon.
MaxClassifyCallbacks == 3
MaxTimeClassify == 600
\* SpecKick: driver callbacks of one behaviour and the clock's horizon.
MaxKickCallbacks == 2
MaxTimeKick == 3600
\* Width of size_t and of int (32 in the source); wide enough for a buffer
\* that holds a whole dump of the event log.
SizeBits == 12
\* SpecRender: event_log_record calls of one behaviour.
MaxRenderRecords == 2
\* Calls of the two modules' interfaces in a behaviour that starts before the
\* modules are initialised, lines added to the log stream in it, and driver
\* callbacks delivered in it.
MaxColdCalls == 2
MaxColdWrites == 1
MaxColdCallbacks == 1

UMod == 2 ^ TimeBits

\* size_t arithmetic.
SizeMod == 2 ^ SizeBits
SubSz(a, b) == (a - b + SizeMod) % SizeMod
AddSz(a, b) == (a + b + SizeMod) % SizeMod
\* INT_MAX, in that width.
IntMax == SizeMod \div 2 - 1

Max(a, b) == IF a >= b THEN a ELSE b

\* uint32_t subtraction (a - b), in the clock's word.
SubU(a, b) == (a - b + UMod) % UMod

Min(a, b) == IF a <= b THEN a ELSE b

\* ------------------------------------------------------------------------
\* State
\* ------------------------------------------------------------------------
VARIABLES
    \* network_setup.c
    s_netif,             \* esp-netif created (non-NULL)
    s_stack_ready,
    s_usb_mounted,
    s_link_up,
    s_mount_ms,
    s_last_rx_ms,
    s_last_recover_ms,
    s_backoff_ms,
    s_recover_attempts,
    s_first_rx_logged,
    s_first_tx_logged,
    s_rx_packets,
    s_rx_bytes,
    \* the external USB driver
    linkSignal,          \* last value given to tud_network_link_state ("none" before the first)
    drvCalls,            \* the watchdog's tud_disconnect / tud_connect calls, in order
    reenum,              \* the host has yet to enumerate the (re)attached device
    \* event_log.c
    evt_mutex,           \* s_mutex created by event_log_init
    s_events,
    s_event_occurred,
    \* tasks and clock
    now,                 \* esp_timer_get_time() / 1000
    initPc,              \* network_init's position
    wdPc,                \* usb_watchdog_task's position
    wdWake,              \* end of the watchdog's current vTaskDelay
    t,                   \* the watchdog's local t
    usbPc,               \* TinyUSB task: idle or inside tud_resume_cb's delay
    usbWake,
    \* history (not program state)
    suspended,           \* tud_suspend_cb delivered and no resume/mount/unmount since
    lastMountAt,         \* clock at the most recent tud_mount_cb (-1: none)
    recSinceMount,       \* at the latest recovery decision: clock - lastMountAt (-1: none)
    graceStart,          \* clock at the most recent tud_mount_cb or reattach (-1: none)
    recCount,            \* recovery sequences started since the most recent tud_mount_cb
    recAt,               \* tick time of the latest of them (-1: none)
    rxSinceMount,        \* a frame was received since the most recent tud_mount_cb
    umountInRec,         \* tud_umount_cb delivered inside the current recovery sequence
    mountInRec,          \* tud_mount_cb delivered inside the current recovery sequence
    kickQuiet,           \* the watchdog's kick ran undisturbed and nothing happened since
    secondTrig,          \* the tick began with kickQuiet and has yet to reach its recovery decision
    kickSeq,             \* link signals of the watchdog's latest kick, while kickQuiet
    nCallbacks,          \* driver callbacks delivered
    s_tx_packets,
    s_tx_bytes,
    txPc,                \* netif_transmit in the lwIP task: "idle" or "send"
    txAttempt,           \* its loop variable attempt
    txOp,                \* the latest netif_transmit call: [n, mounted, linkUp at
                         \* its start, sends, okSeen, ret, firstTx: it recorded
                         \* FIRST_TX]
    slPc,                \* per task of SpecSetLink: where its usb_set_link_state
                         \* call stands ("idle": no call)
    slUp,                \* per task: the call's arguments <<up, reason>>
    slCalls,             \* usb_set_link_state calls begun in SpecSetLink
    rxOp,                \* the latest netif_recv_callback of SpecClassify: [n, buffer:
                         \* the frame's bytes, reads: the offsets it read], n counting
                         \* the calls
    addOp,               \* the latest log_buffer_add call of SpecLocks: [res, tick],
                         \* res one of "none", "stored", "invalid", "nolock"; tick
                         \* flips per call
    ssePc,               \* per stream handler: where logs_sse_handler stands
    sseReader,           \* per stream handler: its local reader_id
    sseIdle,             \* per stream handler: its local idle_count
    renderOp,            \* the latest event_log_get_all or event_log_get_status_json
                         \* call: [op, size, ret: the value returned, hi: one past
                         \* the highest offset of buf written]
    evOp,                \* the latest call of SpecEvents' event log caller:
                         \* [op, type, detail, ok, ret, n], n counting the calls
    recCalled,           \* the types that caller gave to event_log_record
    \* log_stream.c
    log_mutex,           \* s_mutex created by log_buffer_init
    s_log_buffer,        \* slot -> the characters before the slot's terminator
    s_log_lengths,
    s_write_idx,
    s_total_written,
    s_reader_pos,
    s_reader_active,
    \* the latest log_buffer_get_all call, until the next log_buffer_add
    dumpSize,            \* buf_size (-1: no call)
    dumpLocked,          \* the call took the mutex
    dumpRet,             \* the value returned
    dumpOut,             \* out_buf as a C string
    \* history (not program state)
    appended,            \* the lines log_buffer_add was given and stored, in order
    \* the consumers of log_buffer_read, one per reader id
    readPtr,             \* the slot the latest call returned a pointer to (-1: NULL)
    readLen,             \* its *out_len
    \* history (not program state)
    logOp,               \* the latest reader call: [op, id, ok, n], n counting the calls
    allocAt,             \* reader -> lines stored when the reader was allocated
    lastGot,             \* reader -> place in appended of the line it was handed last (0: none)
    reuse                \* reader -> "never" allocated, or what its latest allocation found:
                         \* "first" use, or the freed cursor "behind" or "caughtup"

sessVars == <<s_netif, s_stack_ready, s_usb_mounted, s_link_up, s_mount_ms, s_last_rx_ms,
              s_last_recover_ms, s_backoff_ms, s_recover_attempts, s_first_rx_logged,
              s_first_tx_logged, s_rx_packets, s_rx_bytes>>
drvVars == <<linkSignal, drvCalls, reenum>>
evtVars == <<evt_mutex, s_events, s_event_occurred>>
taskVars == <<now, initPc, wdPc, wdWake, t, usbPc, usbWake>>
histVars == <<suspended, lastMountAt, recSinceMount, graceStart, recCount, recAt, rxSinceMount, umountInRec,
              mountInRec, kickQuiet, secondTrig, kickSeq, nCallbacks>>
evtCallVars == <<evOp, recCalled, renderOp>>
txVars == <<s_tx_packets, s_tx_bytes, txPc, txAttempt, txOp>>
slVars == <<slPc, slUp, slCalls>>
rxVars == <<rxOp>>
linkVars == <<sessVars, drvVars, evtVars, taskVars, histVars, evtCallVars, txVars, slVars,
              rxVars>>
rdVars == <<readPtr, readLen, logOp, allocAt, lastGot, reuse>>
sseVars == <<ssePc, sseReader, sseIdle>>
streamVars == <<log_mutex, s_log_buffer, s_log_lengths, s_write_idx, s_total_written,
                s_reader_pos, s_reader_active, dumpSize, dumpLocked, dumpRet, dumpOut,
                appended, rdVars, addOp>>
logVars == <<streamVars, sseVars>>
vars == <<linkVars, logVars>>

\* ------------------------------------------------------------------------
\* event_log.c
\* ------------------------------------------------------------------------
EVENT_NAMES == <<"USB_MOUNTED", "USB_UNMOUNTED", "USB_SUSPENDED", "USB_RESUMED",
                 "NCM_LINK_UP", "NETIF_READY", "FIRST_RX", "FIRST_TX",
                 "DHCP_DISCOVER_RX", "DHCP_OFFER_TX", "DHCP_REQUEST_RX", "DHCP_ACK_TX",
                 "DHCP_ASSIGNED">>
EVT_COUNT == Len(EVENT_NAMES)
EventTypes == {EVENT_NAMES[i] : i \in 1..EVT_COUNT}

\* A C string is the sequence of its characters; NULL and "" are both <<>>
\* (event_log_record stores an empty detail for either).  The reasons the
\* link code passes are short identifiers: each is one token here.
NoDetail == <<>>
Reason(r) == <<r>>

\* strncpy(e->detail, detail, MAX_DETAIL_LEN - 1) and the terminator.
StoreDetailKeepAll(detail) == detail
StoreDetail(detail) == SubSeq(detail, 1, Min(Len(detail), MAX_DETAIL_LEN - 1))

\* if (s_event_count < MAX_EVENTS)
HasRoomOneMore(count) == count <= MAX_EVENTS
HasRoom(count) == count < MAX_EVENTS

\* The event log as a value, so that one handler can record several events.
EvtState == [mutex |-> evt_mutex, events |-> s_events, occurred |-> s_event_occurred]

\* if (!s_mutex ...) return;
UninitialisedNever(st) == FALSE
Uninitialised(st) == ~st.mutex

\* event_log_init(): the mutex is created and the log emptied.
event_log_init(st) ==
    [mutex |-> TRUE, events |-> <<>>, occurred |-> [e \in EventTypes |-> FALSE]]

\* event_log_record(type, detail) at clock ts; lockOk: the mutex was taken
\* within the 50 ms wait.
event_log_record(st, type, detail, ts, lockOk) ==
    IF Uninitialised(st) \/ type \notin EventTypes \/ ~lockOk
    THEN st
    ELSE [st EXCEPT
            !.occurred = [st.occurred EXCEPT ![type] = TRUE],
            !.events = IF HasRoom(Len(st.events))
                       THEN Append(st.events,
                                   [timestamp_ms |-> ts, type |-> type,
                                    detail |-> StoreDetail(detail)])
                       ELSE st.events]

\* event_log_has(type); lockOk: the mutex was taken within the 50 ms wait.
event_log_has(st, type, lockOk) ==
    IF ~st.mutex \/ type \notin EventTypes \/ ~lockOk
    THEN FALSE
    ELSE st.occurred[type]

\* strlen(EVENT_NAMES[type]).
NameLen(type) ==
    CASE type = "USB_MOUNTED" -> 11
      [] type = "USB_UNMOUNTED" -> 13
      [] type = "USB_SUSPENDED" -> 13
      [] type = "USB_RESUMED" -> 11
      [] type = "NCM_LINK_UP" -> 11
      [] type = "NETIF_READY" -> 11
      [] type = "FIRST_RX" -> 8
      [] type = "FIRST_TX" -> 8
      [] type = "DHCP_DISCOVER_RX" -> 16
      [] type = "DHCP_OFFER_TX" -> 13
      [] type = "DHCP_REQUEST_RX" -> 15
      [] type = "DHCP_ACK_TX" -> 11
      [] type = "DHCP_ASSIGNED" -> 13

\* The decimal digits of n.
RECURSIVE Digits(_)
Digits(n) == IF n < 10 THEN 1 ELSE 1 + Digits(n \div 10)

\* A dump in progress: written as the function counts it, and hi, one past
\* the highest offset of buf written so far.
\* written += snprintf(buf + written, size - written, ...) for a text of n
\* characters.  snprintf returns n, whatever it stored; it stores nothing
\* into no room, else the characters that fit and a terminator.  Room beyond
\* INT_MAX (size - written has wrapped): the library either refuses (returns
\* -1, stores nothing: overflowFails) or stores the whole text.
Snprintf(r, size, n, overflowFails) ==
    LET room == SubSz(size, r.written)
    IN  IF room > IntMax
        THEN IF overflowFails
             THEN [written |-> AddSz(r.written, -1), hi |-> r.hi]
             ELSE [written |-> AddSz(r.written, n), hi |-> Max(r.hi, r.written + n + 1)]
        ELSE IF room = 0
        THEN [written |-> AddSz(r.written, n), hi |-> r.hi]
        ELSE [written |-> AddSz(r.written, n),
              hi |-> Max(r.hi, r.written + Min(n, room - 1) + 1)]

\* The event loop of event_log_get_all from iteration i on.
RECURSIVE RenderEvents(_, _, _, _, _)
RenderEvents(st, i, r, size, overflowFails) ==
    IF ~(i < Len(st.events) /\ r.written < SubSz(size, 100))
    THEN r
    ELSE LET e == st.events[i + 1]
             n == 1 + Max(6, Digits(e.timestamp_ms)) + 5 + NameLen(e.type)
                    + (IF e.detail # <<>> THEN 2 + Len(e.detail) ELSE 0) + 1
         IN  RenderEvents(st, i + 1, Snprintf(r, size, n, overflowFails), size, overflowFails)

\* The flag loops of event_log_get_all (json FALSE) and of
\* event_log_get_status_json (json TRUE) from iteration i on.
RECURSIVE RenderFlags(_, _, _, _, _, _)
RenderFlags(st, i, r, size, overflowFails, json) ==
    IF ~(i < EVT_COUNT /\ r.written < SubSz(size, 50))
    THEN r
    ELSE LET name == EVENT_NAMES[i + 1]
             n == IF json
                  THEN 3 + NameLen(name) + 3 + (IF st.occurred[name] THEN 4 ELSE 5)
                         + (IF i < EVT_COUNT - 1 THEN 1 ELSE 0) + 1
                  ELSE NameLen(name) + 2 + (IF st.occurred[name] THEN 3 ELSE 2) + 1
         IN  RenderFlags(st, i + 1, Snprintf(r, size, n, overflowFails), size, overflowFails,
                         json)

\* event_log_get_all(buf, size), buf non-NULL; lockOk: the mutex was taken
\* within the 100 ms wait.
event_log_get_all(st, size, lockOk, overflowFails) ==
    IF ~st.mutex \/ size = 0 \/ ~lockOk
    THEN [written |-> 0, hi |-> 0]
    ELSE LET r1 == Snprintf([written |-> 0, hi |-> 0], size,
                            21 + Digits(Len(st.events)) + 16, overflowFails)
             r2 == RenderEvents(st, 0, r1, size, overflowFails)
             r3 == Snprintf(r2, size, 22, overflowFails)
         IN  RenderFlags(st, 0, r3, size, overflowFails, FALSE)

\* event_log_get_status_json(buf, size), buf non-NULL.
event_log_get_status_json(st, size, lockOk, overflowFails) ==
    IF ~st.mutex \/ size = 0 \/ ~lockOk
    THEN [written |-> 0, hi |-> 0]
    ELSE LET r1 == Snprintf([written |-> 0, hi |-> 0], size, 2, overflowFails)
             r2 == RenderFlags(st, 0, r1, size, overflowFails, TRUE)
         IN  Snprintf(r2, size, 2, overflowFails)

SetEvt(st) ==
    /\ evt_mutex' = st.mutex
    /\ s_events' = st.events
    /\ s_event_occurred' = st.occurred

\* ------------------------------------------------------------------------
\* network_setup.c: helpers
\* ------------------------------------------------------------------------
\* usb_set_link_state(up, reason): the session's link flag, the driver's
\* link notification, and the NCM_LINK_UP record of an up call.
\* st is the event log as the caller's earlier records left it.
usb_set_link_state_inverted(st, up, reason) ==
    /\ s_link_up' = up
    /\ linkSignal' = ~up
    /\ SetEvt(IF up THEN event_log_record(st, "NCM_LINK_UP", reason, now, TRUE)
                    ELSE st)
usb_set_link_state(st, up, reason) ==
    /\ s_link_up' = up
    /\ linkSignal' = up
    /\ SetEvt(IF up THEN event_log_record(st, "NCM_LINK_UP", reason, now, TRUE)
                    ELSE st)

\* usb_set_link_state statement by statement, as its callers in two tasks
\* run it: the TinyUSB task's callbacks and the watchdog task.
LinkTasks == {"usb", "wd"}
SetLinkArgs(task) ==
    IF task = "usb"
    THEN {<<FALSE, Reason("suspended")>>, <<TRUE, Reason("resume_kick_up")>>}
    ELSE {<<FALSE, Reason("stack_ready_kick_down")>>, <<TRUE, Reason("stack_ready_kick_up")>>}

\* Lines 95-99: the comparison and the assignment of s_link_up.
usb_set_link_state_assign(task) ==
    /\ slPc[task] = "idle"
    /\ slCalls < MaxSetLinkCalls
    /\ \E a \in SetLinkArgs(task) :
          /\ s_link_up' = IF s_link_up = a[1] THEN s_link_up ELSE a[1]
          /\ slUp' = [slUp EXCEPT ![task] = a]
    /\ slPc' = [slPc EXCEPT ![task] = "notify"]
    /\ slCalls' = slCalls + 1
    /\ UNCHANGED <<s_netif, s_stack_ready, s_usb_mounted, s_mount_ms, s_last_rx_ms,
                   s_last_recover_ms, s_backoff_ms, s_recover_attempts, s_first_rx_logged,
                   s_first_tx_logged, s_rx_packets, s_rx_bytes, drvVars, evtVars, taskVars,
                   histVars, evtCallVars, txVars, logVars, rxVars>>

\* Lines 102-110: tud_network_link_state and the NCM_LINK_UP record.
usb_set_link_state_notify(task) ==
    /\ slPc[task] = "notify"
    /\ linkSignal' = slUp[task][1]
    /\ SetEvt(IF slUp[task][1]
              THEN event_log_record(EvtState, "NCM_LINK_UP", slUp[task][2], now, TRUE)
              ELSE EvtState)
    /\ slPc' = [slPc EXCEPT ![task] = "idle"]
    /\ UNCHANGED <<sessVars, drvCalls, reenum, taskVars, histVars, evtCallVars, txVars,
                   logVars, slUp, slCalls, rxVars>>

usb_set_link_state_calls ==
    \E task \in LinkTasks : usb_set_link_state_assign(task) \/ usb_set_link_state_notify(task)

InRecovery == wdPc \in {"rec_down", "connect", "post_down", "post_up", "backoff"}
\* Between the sequence's first link-down and its final link-up.
MidRecovery == wdPc \in {"connect", "post_down", "post_up"}

\* A driver callback is delivered: bookkeeping of the history variables.
Delivered ==
    /\ nCallbacks' = nCallbacks + 1
    /\ kickQuiet' = FALSE
    /\ secondTrig' = FALSE
    /\ kickSeq' = <<>>

\* ------------------------------------------------------------------------
\* network_setup.c: TinyUSB device callbacks (TinyUSB task)
\* ------------------------------------------------------------------------
\* The driver calls back once tinyusb_driver_install has run, one callback
\* at a time; maxCb bounds the callbacks of a behaviour.
CanDeliver(maxCb) ==
    /\ initPc # "install"
    /\ usbPc = "idle"
    /\ nCallbacks < maxCb

tud_mount_cb(maxCb) ==
    /\ UNCHANGED <<logVars, evtCallVars, txVars, slVars, rxVars>>
    /\ CanDeliver(maxCb)
    /\ s_usb_mounted' = TRUE
    /\ s_mount_ms' = now
    /\ s_last_rx_ms' = 0
    /\ s_recover_attempts' = 0
    /\ s_backoff_ms' = USB_RECOVER_BACKOFF_START_MS
    /\ s_last_recover_ms' = 0
    /\ usb_set_link_state(event_log_record(EvtState, "USB_MOUNTED", NoDetail, now, TRUE),
                          FALSE, Reason("mounted"))
    /\ Delivered
    /\ suspended' = FALSE
    /\ lastMountAt' = now
    /\ graceStart' = now
    /\ recCount' = 0
    /\ recAt' = -1
    /\ rxSinceMount' = FALSE
    /\ mountInRec' = InRecovery
    /\ umountInRec' = FALSE
    /\ UNCHANGED <<s_netif, s_stack_ready, s_first_rx_logged, s_first_tx_logged,
                   s_rx_packets, s_rx_bytes, drvCalls, taskVars, recSinceMount>>
    /\ reenum' = FALSE

tud_umount_cb(maxCb) ==
    /\ UNCHANGED <<logVars, evtCallVars, txVars, slVars, rxVars>>
    /\ CanDeliver(maxCb)
    /\ s_usb_mounted' = FALSE
    /\ s_mount_ms' = 0
    /\ s_last_rx_ms' = 0
    /\ s_first_rx_logged' = FALSE
    /\ s_first_tx_logged' = FALSE
    /\ usb_set_link_state(event_log_record(EvtState, "USB_UNMOUNTED", NoDetail, now, TRUE),
                          FALSE, Reason("unmounted"))
    /\ Delivered
    /\ suspended' = FALSE
    /\ umountInRec' = (umountInRec \/ MidRecovery)
    /\ mountInRec' = FALSE
    /\ UNCHANGED <<s_netif, s_stack_ready, s_last_recover_ms, s_backoff_ms,
                   s_recover_attempts, s_rx_packets, s_rx_bytes, drvCalls, reenum, taskVars,
                   lastMountAt, recSinceMount, graceStart, recCount, recAt, rxSinceMount>>

tud_suspend_cb(maxCb) ==
    /\ UNCHANGED <<logVars, evtCallVars, txVars, slVars, rxVars>>
    /\ CanDeliver(maxCb)
    /\ \E remote_wakeup_en \in BOOLEAN :
          usb_set_link_state(
              event_log_record(EvtState, "USB_SUSPENDED",
                               IF remote_wakeup_en THEN Reason("wake_en") ELSE NoDetail,
                               now, TRUE),
              FALSE, Reason("suspended"))
    /\ Delivered
    /\ suspended' = TRUE
    /\ UNCHANGED <<s_netif, s_stack_ready, s_usb_mounted, s_mount_ms, s_last_rx_ms,
                   s_last_recover_ms, s_backoff_ms, s_recover_attempts, s_first_rx_logged,
                   s_first_tx_logged, s_rx_packets, s_rx_bytes, drvCalls, reenum, taskVars,
                   lastMountAt, recSinceMount, graceStart, recCount, recAt, rxSinceMount,
                   umountInRec, mountInRec>>

\* Line 170: if (s_usb_mounted && s_stack_ready).
ResumeKickConditionMountedOnly == s_usb_mounted
ResumeKickCondition == s_usb_mounted /\ s_stack_ready

\* tud_resume_cb up to its vTaskDelay: the record, and the kick's link-down.
tud_resume_cb(maxCb) ==
    /\ UNCHANGED <<logVars, evtCallVars, txVars, slVars, rxVars>>
    /\ CanDeliver(maxCb)
    /\ LET st == event_log_record(EvtState, "USB_RESUMED", NoDetail, now, TRUE) IN
       IF ResumeKickCondition
       THEN /\ usb_set_link_state(st, FALSE, Reason("resume_kick_down"))
            /\ usbPc' = "resume_kick_up"
            /\ usbWake' = now + USB_LINK_KICK_DELAY_MS
       ELSE /\ SetEvt(st)
            /\ UNCHANGED <<s_link_up, linkSignal, usbPc, usbWake>>
    /\ Delivered
    /\ suspended' = FALSE
    /\ UNCHANGED <<s_netif, s_stack_ready, s_usb_mounted, s_mount_ms, s_last_rx_ms,
                   s_last_recover_ms, s_backoff_ms, s_recover_attempts, s_first_rx_logged,
                   s_first_tx_logged, s_rx_packets, s_rx_bytes, drvCalls, reenum,
                   now, initPc, wdPc, wdWake, t,
                   lastMountAt, recSinceMount, graceStart, recCount, recAt, rxSinceMount,
                   umountInRec, mountInRec>>

\* tud_resume_cb after its vTaskDelay: the kick's link-up.
tud_resume_cb_kick_up ==
    /\ UNCHANGED <<logVars, evtCallVars, txVars, slVars, rxVars>>
    /\ usbPc = "resume_kick_up"
    /\ now >= usbWake
    /\ usb_set_link_state(EvtState, TRUE, Reason("resume_kick_up"))
    /\ usbPc' = "idle"
    /\ kickQuiet' = FALSE
    /\ secondTrig' = FALSE
    /\ kickSeq' = <<>>
    /\ UNCHANGED <<s_netif, s_stack_ready, s_usb_mounted, s_mount_ms, s_last_rx_ms,
                   s_last_recover_ms, s_backoff_ms, s_recover_attempts, s_first_rx_logged,
                   s_first_tx_logged, s_rx_packets, s_rx_bytes, drvCalls, reenum,
                   now, initPc, wdPc, wdWake, t, usbWake,
                   suspended, lastMountAt, recSinceMount, graceStart, recCount, recAt,
                   rxSinceMount, umountInRec, mountInRec, nCallbacks>>

\* ------------------------------------------------------------------------
\* network_setup.c: NCM receive callback (TinyUSB task)
\* ------------------------------------------------------------------------
\* The header fields netif_recv_callback reads from a frame of len bytes:
\* bytes 12-13, 23, 34-35 and 36-37.
Frame(len, ethertype, proto, src_port, dst_port) ==
    [len |-> len, ethertype |-> ethertype, proto |-> proto,
     src_port |-> src_port, dst_port |-> dst_port]

\* if (len >= 42): the frame is long enough to be classified.
ClassifiableEthernet(len) == len >= 14
Classifiable(len) == len >= 42

IsDhcpDiscover(f) ==
    /\ Classifiable(f.len)
    /\ f.ethertype = 2048
    /\ f.proto = 17
    /\ f.src_port = 68
    /\ f.dst_port = 67

\* The offsets of buffer netif_recv_callback reads, statement by statement.
ReadOffsets(f) ==
    IF ~Classifiable(f.len) THEN {}
    ELSE {12, 13} \cup
         (IF f.ethertype # 2048 THEN {}
          ELSE {23} \cup (IF f.proto # 17 THEN {} ELSE {34, 35, 36, 37}))

\* A frame as the driver hands it over: buffer is the sequence of its bytes,
\* eth[i] is buffer[i + 1]; an offset at or beyond len holds whatever
\* follows the frame in memory (beyond).
ByteAt(buffer, beyond, off) == IF off < Len(buffer) THEN buffer[off + 1] ELSE beyond
\* (uint16_t)((eth[off] << 8) | eth[off + 1])
Be16(buffer, beyond, off) == ByteAt(buffer, beyond, off) * 256 + ByteAt(buffer, beyond, off + 1)

\* The header fields netif_recv_callback extracts from the bytes; -1 for a
\* field it does not read.
FrameOf(buffer, beyond) ==
    LET len == Len(buffer)
        ethertype == IF Classifiable(len) THEN Be16(buffer, beyond, 12) ELSE -1
        proto == IF ethertype = 2048 THEN ByteAt(buffer, beyond, 23) ELSE -1
        src_port == IF proto = 17 THEN Be16(buffer, beyond, 34) ELSE -1
        dst_port == IF proto = 17 THEN Be16(buffer, beyond, 36) ELSE -1
    IN  Frame(len, ethertype, proto, src_port, dst_port)

\* The bytes of a frame of len bytes with the given header fields in network
\* byte order, cut at len; every other byte is 0.
EthBytes(len, ethertype, proto, src_port, dst_port) ==
    [i \in 1..len |->
        CASE i = 13 -> ethertype \div 256
          [] i = 14 -> ethertype % 256
          [] i = 24 -> proto
          [] i = 35 -> src_port \div 256
          [] i = 36 -> src_port % 256
          [] i = 37 -> dst_port \div 256
          [] i = 38 -> dst_port % 256
          [] OTHER -> 0]

\* Frames the driver delivers in SpecClassify: DHCP client requests of the
\* shortest length and longer; the same one byte short, cut after the
\* Ethernet header, cut inside the UDP ports, and of one byte; and full
\* frames that differ from a DHCP client request in one field: ARP, a
\* byte-swapped ethertype, TCP, a DHCP server reply, another destination
\* port, a byte-swapped source port.
RxBuffers ==
    {EthBytes(42, 2048, 17, 68, 67), EthBytes(43, 2048, 17, 68, 67),
     EthBytes(41, 2048, 17, 68, 67), EthBytes(14, 2048, 17, 68, 67),
     EthBytes(36, 2048, 17, 68, 67), EthBytes(1, 2048, 17, 68, 67),
     EthBytes(42, 2054, 17, 68, 67), EthBytes(42, 8, 17, 68, 67),
     EthBytes(42, 2048, 6, 68, 67), EthBytes(42, 2048, 17, 67, 68),
     EthBytes(42, 2048, 17, 68, 53), EthBytes(42, 2048, 17, 17408, 67)}
\* What lies behind a frame in memory.
BeyondBytes == {0, 8, 17, 67, 68}

\* Frames the link specifications deliver: one too short to classify, one
\* DHCP client request.
LinkFrames == {Frame(41, 2048, 17, 68, 67), Frame(42, 2048, 17, 68, 67)}

\* netif_recv_callback(buffer, len, ctx) for the frame f.
RecvFrame(maxCb, f) ==
    /\ UNCHANGED <<logVars, evtCallVars, txVars, slVars>>
    /\ CanDeliver(maxCb)
    /\    IF ~s_netif
          THEN UNCHANGED <<sessVars, evtVars, rxSinceMount>>
          ELSE /\ s_rx_packets' = s_rx_packets + 1
               /\ s_rx_bytes' = s_rx_bytes + f.len
               /\ s_last_rx_ms' = now
               /\ s_first_rx_logged' = TRUE
               /\ rxSinceMount' = TRUE
               /\ LET st1 == IF ~s_first_rx_logged
                             THEN event_log_record(EvtState, "FIRST_RX", NoDetail, now, TRUE)
                             ELSE EvtState
                      st2 == IF IsDhcpDiscover(f)
                             THEN event_log_record(st1, "DHCP_DISCOVER_RX", NoDetail, now, TRUE)
                             ELSE st1
                  IN SetEvt(st2)
               /\ UNCHANGED <<s_netif, s_stack_ready, s_usb_mounted, s_link_up, s_mount_ms,
                              s_last_recover_ms, s_backoff_ms, s_recover_attempts,
                              s_first_tx_logged>>
    /\ Delivered
    /\ UNCHANGED <<drvVars, taskVars, suspended, lastMountAt, recSinceMount, graceStart,
                   recCount, recAt, umountInRec, mountInRec>>

netif_recv_callback(maxCb, frames) ==
    /\ \E f \in frames : RecvFrame(maxCb, f)
    /\ UNCHANGED rxVars

\* The callback on the bytes of a frame, while the device is configured.
netif_recv_callback_buffer ==
    /\ s_usb_mounted
    /\ \E buffer \in RxBuffers, beyond \in BeyondBytes :
          /\ RecvFrame(MaxClassifyCallbacks, FrameOf(buffer, beyond))
          /\ rxOp' = [n |-> rxOp.n + 1, buffer |-> buffer,
                      reads |-> IF s_netif THEN ReadOffsets(FrameOf(buffer, beyond)) ELSE {}]

\* ------------------------------------------------------------------------
\* network_setup.c: netif_transmit (lwIP task)
\* ------------------------------------------------------------------------
\* Frames lwIP hands over: one too short to classify, one DHCP server reply.
TxFrames == {Frame(41, 2048, 17, 67, 68), Frame(42, 2048, 17, 67, 68)}

IsDhcpReply(f) ==
    /\ f.len >= 42
    /\ f.ethertype = 2048
    /\ f.proto = 17
    /\ f.src_port = 67
    /\ f.dst_port = 68

\* if (!s_usb_mounted || !s_link_up) return ESP_OK;
TxSaneMountedOnly == s_usb_mounted
TxSane == s_usb_mounted /\ s_link_up

\* for (...; attempt < 3; attempt++), after a failed attempt.
RetryLeftOneMore(attempt) == attempt < TX_ATTEMPTS
RetryLeft(attempt) == attempt + 1 < TX_ATTEMPTS

\* lwIP calls netif_transmit once the interface is started: the state check,
\* the counters and the event records, up to the retry loop.
netif_transmit_call ==
    /\ UNCHANGED <<logVars, evtCallVars, slVars, rxVars>>
    /\ s_stack_ready
    /\ txPc = "idle"
    /\ txOp.n < MaxTxCalls
    /\ \E f \in TxFrames :
          IF ~TxSane
          THEN /\ txOp' = [n |-> txOp.n + 1, mounted |-> s_usb_mounted, linkUp |-> s_link_up,
                           sends |-> 0, okSeen |-> FALSE, ret |-> "ESP_OK",
                           firstTx |-> FALSE]
               /\ UNCHANGED <<s_first_tx_logged, evtVars, s_tx_packets, s_tx_bytes, txPc,
                              txAttempt>>
          ELSE /\ s_tx_packets' = s_tx_packets + 1
               /\ s_tx_bytes' = s_tx_bytes + f.len
               /\ s_first_tx_logged' = TRUE
               /\ LET st1 == IF ~s_first_tx_logged
                             THEN event_log_record(EvtState, "FIRST_TX", NoDetail, now, TRUE)
                             ELSE EvtState
                      st2 == IF IsDhcpReply(f)
                             THEN event_log_record(st1, "DHCP_OFFER_TX", NoDetail, now, TRUE)
                             ELSE st1
                  IN SetEvt(st2)
               /\ txPc' = "send"
               /\ txAttempt' = 0
               /\ txOp' = [n |-> txOp.n + 1, mounted |-> s_usb_mounted, linkUp |-> s_link_up,
                           sends |-> 0, okSeen |-> FALSE, ret |-> "none",
                           firstTx |-> ~s_first_tx_logged]
    /\ UNCHANGED <<s_netif, s_stack_ready, s_usb_mounted, s_link_up, s_mount_ms, s_last_rx_ms,
                   s_last_recover_ms, s_backoff_ms, s_recover_attempts, s_first_rx_logged,
                   s_rx_packets, s_rx_bytes, drvVars, taskVars, histVars>>

\* One turn of the retry loop: tinyusb_net_send_sync succeeds or fails (within
\* its 250 ms), a failure is followed by the 10 ms delay; after the loop
\* netif_transmit returns ESP_OK.
netif_transmit_send ==
    /\ UNCHANGED <<logVars, evtCallVars, slVars, rxVars>>
    /\ txPc = "send"
    /\ \E sent \in BOOLEAN :
          /\ IF sent \/ ~RetryLeft(txAttempt)
             THEN /\ txPc' = "idle"
                  /\ txAttempt' = 0
                  /\ txOp' = [txOp EXCEPT !.sends = @ + 1, !.okSeen = sent, !.ret = "ESP_OK"]
             ELSE /\ txPc' = "send"
                  /\ txAttempt' = txAttempt + 1
                  /\ txOp' = [txOp EXCEPT !.sends = @ + 1]
    /\ UNCHANGED <<sessVars, drvVars, evtVars, taskVars, histVars, s_tx_packets, s_tx_bytes>>

netif_transmit ==
    \/ netif_transmit_call
    \/ netif_transmit_send

\* ------------------------------------------------------------------------
\* network_setup.c: network_init (main task)
\* ------------------------------------------------------------------------
\* [1]-[3]: the TinyUSB driver and NCM are installed, the link starts DOWN.
network_init_install ==
    /\ UNCHANGED <<logVars, evtCallVars, txVars, slVars, rxVars>>
    /\ initPc = "install"
    /\ usb_set_link_state(EvtState, FALSE, Reason("boot_init"))
    /\ initPc' = "netif"
    /\ UNCHANGED <<s_netif, s_stack_ready, s_usb_mounted, s_mount_ms, s_last_rx_ms,
                   s_last_recover_ms, s_backoff_ms, s_recover_attempts, s_first_rx_logged,
                   s_first_tx_logged, s_rx_packets, s_rx_bytes, drvCalls, reenum,
                   now, wdPc, wdWake, t, usbPc, usbWake, histVars>>

\* [4]-[5]: esp_netif_new.
network_init_netif ==
    /\ UNCHANGED <<logVars, evtCallVars, txVars, slVars, rxVars>>
    /\ initPc = "netif"
    /\ s_netif' = TRUE
    /\ initPc' = "start"
    /\ UNCHANGED <<s_stack_ready, s_usb_mounted, s_link_up, s_mount_ms, s_last_rx_ms,
                   s_last_recover_ms, s_backoff_ms, s_recover_attempts, s_first_rx_logged,
                   s_first_tx_logged, s_rx_packets, s_rx_bytes, drvVars, evtVars,
                   now, wdPc, wdWake, t, usbPc, usbWake, histVars>>

\* [6]-[7]: the stack is ready and the watchdog task is created.
network_init_start ==
    /\ UNCHANGED <<logVars, evtCallVars, txVars, slVars, rxVars>>
    /\ initPc = "start"
    /\ SetEvt(event_log_record(EvtState, "NETIF_READY", NoDetail, now, TRUE))
    /\ s_stack_ready' = TRUE
    /\ initPc' = "done"
    /\ wdPc' = "top"
    /\ wdWake' = now
    /\ UNCHANGED <<s_netif, s_usb_mounted, s_link_up, s_mount_ms, s_last_rx_ms,
                   s_last_recover_ms, s_backoff_ms, s_recover_attempts, s_first_rx_logged,
                   s_first_tx_logged, s_rx_packets, s_rx_bytes, drvVars,
                   now, t, usbPc, usbWake, histVars>>

\* ------------------------------------------------------------------------
\* network_setup.c: usb_watchdog_task (watchdog task)
\* ------------------------------------------------------------------------
WdRuns(pc) == wdPc = pc /\ now >= wdWake

\* Line 299: the stack became ready while mounted and the link is down.
KickConditionIgnoringLink == s_stack_ready /\ s_usb_mounted
KickConditionWhenUp == s_stack_ready /\ s_usb_mounted /\ s_link_up
KickConditionUnmounted == s_stack_ready /\ ~s_link_up
KickCondition == s_stack_ready /\ s_usb_mounted /\ ~s_link_up

\* Lines 306-315, evaluated with the tick's t.
RecoverConditionNoCap ==
    /\ s_stack_ready /\ s_usb_mounted
    /\ s_last_rx_ms = 0
    /\ s_mount_ms # 0
    /\ SubU(t, s_mount_ms) >= USB_NO_RX_GRACE_MS
    /\ s_recover_attempts <= USB_RECOVER_MAX_ATTEMPTS
    /\ (s_last_recover_ms = 0 \/ SubU(t, s_last_recover_ms) >= s_backoff_ms)
RecoverConditionNoBackoff ==
    /\ s_stack_ready /\ s_usb_mounted
    /\ s_last_rx_ms = 0
    /\ s_mount_ms # 0
    /\ SubU(t, s_mount_ms) >= USB_NO_RX_GRACE_MS
    /\ s_recover_attempts < USB_RECOVER_MAX_ATTEMPTS
RecoverCondition ==
    /\ s_stack_ready /\ s_usb_mounted
    /\ s_last_rx_ms = 0
    /\ s_mount_ms # 0
    /\ SubU(t, s_mount_ms) >= USB_NO_RX_GRACE_MS
    /\ s_recover_attempts < USB_RECOVER_MAX_ATTEMPTS
    /\ (s_last_recover_ms = 0 \/ SubU(t, s_last_recover_ms) >= s_backoff_ms)

\* Lines 342-345.
NextBackoff(b) ==
    IF b < USB_RECOVER_BACKOFF_MAX_MS
    THEN Min(b * 2, USB_RECOVER_BACKOFF_MAX_MS)
    ELSE b

\* Lines 296-301: sample t; the kick's link-down when the kick is due.
wd_top ==
    /\ UNCHANGED <<logVars, evtCallVars, txVars, slVars, rxVars>>
    /\ WdRuns("top")
    /\ t' = now
    /\ secondTrig' = kickQuiet
    /\ umountInRec' = FALSE
    /\ mountInRec' = FALSE
    /\ IF KickCondition
       THEN /\ usb_set_link_state(EvtState, FALSE, Reason("stack_ready_kick_down"))
            /\ wdPc' = "kick_up"
            /\ wdWake' = now + USB_LINK_KICK_DELAY_MS
            /\ kickQuiet' = FALSE
            /\ kickSeq' = <<FALSE>>
       ELSE /\ wdPc' = "check"
            /\ UNCHANGED <<s_link_up, linkSignal, evtVars, wdWake, kickQuiet, kickSeq>>
    /\ UNCHANGED <<s_netif, s_stack_ready, s_usb_mounted, s_mount_ms, s_last_rx_ms,
                   s_last_recover_ms, s_backoff_ms, s_recover_attempts, s_first_rx_logged,
                   s_first_tx_logged, s_rx_packets, s_rx_bytes, drvCalls, reenum,
                   now, initPc, usbPc, usbWake,
                   suspended, lastMountAt, recSinceMount, graceStart, recCount, recAt,
                   rxSinceMount, nCallbacks>>

\* Line 302: the kick's link-up.
wd_kick_up ==
    /\ UNCHANGED <<logVars, evtCallVars, txVars, slVars, rxVars>>
    /\ WdRuns("kick_up")
    /\ usb_set_link_state(EvtState, TRUE, Reason("stack_ready_kick_up"))
    /\ wdPc' = "check"
    /\ kickQuiet' = (kickSeq = <<FALSE>>)
    /\ kickSeq' = IF kickSeq = <<FALSE>> THEN <<FALSE, TRUE>> ELSE <<>>
    /\ UNCHANGED <<s_netif, s_stack_ready, s_usb_mounted, s_mount_ms, s_last_rx_ms,
                   s_last_recover_ms, s_backoff_ms, s_recover_attempts, s_first_rx_logged,
                   s_first_tx_logged, s_rx_packets, s_rx_bytes, drvCalls, reenum,
                   now, initPc, wdWake, t, usbPc, usbWake,
                   suspended, lastMountAt, recSinceMount, graceStart, recCount, recAt,
                   rxSinceMount, umountInRec, mountInRec, secondTrig, nCallbacks>>

\* Lines 306-318: the recovery decision; line 350 when there is none.
wd_check ==
    /\ UNCHANGED <<logVars, evtCallVars, txVars, slVars, rxVars>>
    /\ WdRuns("check")
    /\ IF RecoverCondition
       THEN /\ s_recover_attempts' = s_recover_attempts + 1
            /\ s_last_recover_ms' = t
            /\ wdPc' = "rec_down"
            /\ recSinceMount' = now - lastMountAt
            /\ recCount' = recCount + 1
            /\ recAt' = t
            /\ kickQuiet' = FALSE
            /\ secondTrig' = FALSE
            /\ kickSeq' = <<>>
            /\ UNCHANGED wdWake
       ELSE /\ wdPc' = "top"
            /\ wdWake' = now + USB_RECOVER_LOOP_PERIOD_MS
            /\ secondTrig' = FALSE
            /\ UNCHANGED <<s_recover_attempts, s_last_recover_ms, recSinceMount, recCount,
                           recAt, kickQuiet, kickSeq>>
    /\ UNCHANGED <<s_netif, s_stack_ready, s_usb_mounted, s_link_up, s_mount_ms,
                   s_last_rx_ms, s_backoff_ms, s_first_rx_logged, s_first_tx_logged,
                   s_rx_packets, s_rx_bytes, drvVars, evtVars,
                   now, initPc, t, usbPc, usbWake,
                   suspended, lastMountAt, graceStart, rxSinceMount, umountInRec,
                   mountInRec, nCallbacks>>

\* Lines 320-327: link-down, tud_disconnect, the detach delay.
wd_rec_down ==
    /\ UNCHANGED <<logVars, evtCallVars, txVars, slVars, rxVars>>
    /\ WdRuns("rec_down")
    /\ usb_set_link_state(EvtState, FALSE, Reason("no_rx_after_mount"))
    /\ drvCalls' = Append(drvCalls, "tud_disconnect")
    /\ UNCHANGED reenum
    /\ wdPc' = "connect"
    /\ wdWake' = now + USB_RECOVER_DETACH_MS
    /\ UNCHANGED <<s_netif, s_stack_ready, s_usb_mounted, s_mount_ms, s_last_rx_ms,
                   s_last_recover_ms, s_backoff_ms, s_recover_attempts, s_first_rx_logged,
                   s_first_tx_logged, s_rx_packets, s_rx_bytes,
                   now, initPc, t, usbPc, usbWake, histVars>>

\* Lines 328-334: tud_connect, the grace window restarts, the settle delay.
wd_connect ==
    /\ UNCHANGED <<logVars, evtCallVars, txVars, slVars, rxVars>>
    /\ WdRuns("connect")
    /\ drvCalls' = Append(drvCalls, "tud_connect")
    /\ reenum' = TRUE
    /\ s_mount_ms' = now
    /\ s_last_rx_ms' = 0
    /\ wdPc' = "post_down"
    /\ wdWake' = now + USB_RECOVER_POST_ATTACH_MS
    /\ graceStart' = now
    /\ UNCHANGED <<s_netif, s_stack_ready, s_usb_mounted, s_link_up,
                   s_last_recover_ms, s_backoff_ms, s_recover_attempts, s_first_rx_logged,
                   s_first_tx_logged, s_rx_packets, s_rx_bytes, linkSignal, evtVars,
                   now, initPc, t, usbPc, usbWake,
                   suspended, lastMountAt, recSinceMount, recCount, recAt, rxSinceMount,
                   umountInRec, mountInRec, kickQuiet, secondTrig, kickSeq, nCallbacks>>

\* Lines 337-338: the post-attach kick's link-down and delay.
wd_post_down ==
    /\ UNCHANGED <<logVars, evtCallVars, txVars, slVars, rxVars>>
    /\ WdRuns("post_down")
    /\ usb_set_link_state(EvtState, FALSE, Reason("post_attach_kick_down"))
    /\ wdPc' = "post_up"
    /\ wdWake' = now + USB_LINK_KICK_DELAY_MS
    /\ UNCHANGED <<s_netif, s_stack_ready, s_usb_mounted, s_mount_ms, s_last_rx_ms,
                   s_last_recover_ms, s_backoff_ms, s_recover_attempts, s_first_rx_logged,
                   s_first_tx_logged, s_rx_packets, s_rx_bytes, drvCalls, reenum,
                   now, initPc, t, usbPc, usbWake, histVars>>

\* Line 339: the post-attach kick's link-up.
wd_post_up ==
    /\ UNCHANGED <<logVars, evtCallVars, txVars, slVars, rxVars>>
    /\ WdRuns("post_up")
    /\ usb_set_link_state(EvtState, TRUE, Reason("kick_complete"))
    /\ wdPc' = "backoff"
    /\ UNCHANGED <<s_netif, s_stack_ready, s_usb_mounted, s_mount_ms, s_last_rx_ms,
                   s_last_recover_ms, s_backoff_ms, s_recover_attempts, s_first_rx_logged,
                   s_first_tx_logged, s_rx_packets, s_rx_bytes, drvCalls, reenum,
                   now, initPc, wdWake, t, usbPc, usbWake, histVars>>

\* Lines 342-350: the backoff doubles; the loop delay.
wd_backoff ==
    /\ UNCHANGED <<logVars, evtCallVars, txVars, slVars, rxVars>>
    /\ WdRuns("backoff")
    /\ s_backoff_ms' = NextBackoff(s_backoff_ms)
    /\ wdPc' = "top"
    /\ wdWake' = now + USB_RECOVER_LOOP_PERIOD_MS
    /\ UNCHANGED <<s_netif, s_stack_ready, s_usb_mounted, s_link_up, s_mount_ms,
                   s_last_rx_ms, s_last_recover_ms, s_recover_attempts, s_first_rx_logged,
                   s_first_tx_logged, s_rx_packets, s_rx_bytes, drvVars, evtVars,
                   now, initPc, t, usbPc, usbWake, histVars>>

usb_watchdog_task ==
    \/ wd_top
    \/ wd_kick_up
    \/ wd_check
    \/ wd_rec_down
    \/ wd_connect
    \/ wd_post_down
    \/ wd_post_up
    \/ wd_backoff

\* ------------------------------------------------------------------------
\* The clock
\* ------------------------------------------------------------------------
WdSleeping == wdPc # "none" /\ wdWake > now
UsbSleeping == usbPc # "idle" /\ usbWake > now
WdBlocked == wdPc = "none" \/ wdWake > now
UsbBlocked == usbPc = "idle" \/ usbWake > now

\* Every task that is not idle sleeps in vTaskDelay: the clock runs to the
\* earliest wake-up.
Advance(maxT) ==
    /\ UNCHANGED <<logVars, evtCallVars, txVars, slVars, rxVars>>
    /\ WdBlocked /\ UsbBlocked
    /\ WdSleeping \/ UsbSleeping
    /\ now' = IF WdSleeping /\ UsbSleeping THEN Min(wdWake, usbWake)
              ELSE IF WdSleeping THEN wdWake ELSE usbWake
    /\ now' <= maxT
    /\ UNCHANGED <<sessVars, drvVars, evtVars, initPc, wdPc, wdWake, t, usbPc, usbWake,
                   histVars>>

\* ------------------------------------------------------------------------
\* log_stream.c
\* ------------------------------------------------------------------------
LogSlots == 0..(LOG_BUFFER_LINES - 1)
ReaderIds == 0..(MAX_READERS - 1)

\* The characters of the lines given to log_buffer_add: the k-th stored line
\* is made of the k-th of them.
LineChars == <<"a", "b", "c", "d", "e", "f", "g", "h">>
Line(c, n) == [i \in 1..n |-> c]

\* Caller buffer sizes: from none to more than every resident line needs.
BufSizes == 0..(LOG_BUFFER_LINES * LOG_LINE_MAX_LEN + 2)

log_buffer_init ==
    /\ ~log_mutex
    /\ log_mutex' = TRUE
    /\ s_log_buffer' = [i \in LogSlots |-> <<>>]
    /\ s_log_lengths' = [i \in LogSlots |-> 0]
    /\ s_write_idx' = 0
    /\ s_total_written' = 0
    /\ s_reader_pos' = [r \in ReaderIds |-> 0]
    /\ s_reader_active' = [r \in ReaderIds |-> FALSE]
    /\ UNCHANGED <<dumpSize, dumpLocked, dumpRet, dumpOut, appended, rdVars, addOp, sseVars,
                   linkVars>>

\* The length log_buffer_add stores for a line of len characters.
StoredLen(len) == IF len > LOG_LINE_MAX_LEN - 1 THEN LOG_LINE_MAX_LEN - 1 ELSE len

\* log_buffer_add(line, len); lockOk: the mutex was taken within the 10 ms
\* wait.
\* xSemaphoreTake(s_mutex, pdMS_TO_TICKS(10)) != pdTRUE: return.
TakenOrNot(lockOk) == TRUE
Taken(lockOk) == lockOk

\* log_buffer_add(line, len) for a line of n characters; lockOk: the mutex
\* was taken within the 10 ms wait.
AddLine(n, lockOk) ==
    /\ LET line == Line(LineChars[Len(appended) + 1], n)
           len == StoredLen(n)
       IN  IF ~log_mutex \/ n = 0 \/ ~Taken(lockOk)
           THEN UNCHANGED <<s_log_buffer, s_log_lengths, s_write_idx, s_total_written,
                            appended>>
           ELSE /\ s_log_buffer' = [s_log_buffer EXCEPT ![s_write_idx] = SubSeq(line, 1, len)]
                /\ s_log_lengths' = [s_log_lengths EXCEPT ![s_write_idx] = len]
                /\ s_write_idx' = (s_write_idx + 1) % LOG_BUFFER_LINES
                /\ s_total_written' = s_total_written + 1
                /\ appended' = Append(appended, line)
    /\ dumpSize' = -1
    /\ dumpLocked' = FALSE
    /\ dumpRet' = 0
    /\ dumpOut' = <<>>
    /\ UNCHANGED <<log_mutex, s_reader_pos, s_reader_active, rdVars, sseVars, linkVars>>

LogAdd(lens) ==
    /\ Len(appended) < MaxWrites
    /\ \E n \in lens, lockOk \in BOOLEAN : AddLine(n, lockOk)
    /\ UNCHANGED addOp

\* Lines of every length, from the empty line to one that is truncated.
log_buffer_add == LogAdd(0..LOG_LINE_MAX_LEN)
\* Lines whose lengths run through 1..LOG_LINE_MAX_LEN, one after the other.
log_buffer_add_line == LogAdd({1 + (Len(appended) % LOG_LINE_MAX_LEN)})

\* log_buffer_get_count's count, which log_buffer_get_all computes as
\* num_lines.
NumLines == IF s_total_written < LOG_BUFFER_LINES THEN s_total_written ELSE LOG_BUFFER_LINES

\* start_idx of log_buffer_get_all: the slot of the oldest line.
StartIdxAtWriteIdx == s_write_idx
StartIdx == IF s_total_written <= LOG_BUFFER_LINES THEN 0 ELSE s_write_idx

\* if (written + line_len + 1 >= buf_size) break;
NoRoomOffByOne(written, line_len, buf_size) == written + line_len + 1 > buf_size
NoRoom(written, line_len, buf_size) == written + line_len + 1 >= buf_size

\* The copy loop of log_buffer_get_all from iteration i on; out is out_buf
\* up to written.
RECURSIVE CopyLines(_, _, _)
CopyLines(i, buf_size, out) ==
    LET written == Len(out)
        buf_idx == (StartIdx + i) % LOG_BUFFER_LINES
        line_len == s_log_lengths[buf_idx]
    IN  IF ~(i < NumLines /\ written < SubSz(buf_size, 2))
        THEN out
        ELSE IF NoRoom(written, line_len, buf_size)
             THEN out
             ELSE CopyLines(i + 1, buf_size,
                            out \o SubSeq(s_log_buffer[buf_idx], 1, line_len) \o <<"\n">>)

\* log_buffer_get_all(out_buf, buf_size); lockOk: the mutex was taken within
\* the 500 ms wait.  out_buf is non-NULL and starts zeroed.
log_buffer_get_all ==
    /\ \E buf_size \in BufSizes, lockOk \in BOOLEAN :
          /\ dumpSize' = buf_size
          /\ dumpLocked' = (log_mutex /\ buf_size # 0 /\ lockOk)
          /\ IF ~log_mutex \/ buf_size = 0
             THEN /\ dumpRet' = 0
                  /\ dumpOut' = <<>>
             ELSE LET out == IF lockOk THEN CopyLines(0, buf_size, <<>>) ELSE <<>>
                      written == Len(out)
                      term == IF written < buf_size THEN written ELSE buf_size - 1
                  IN  /\ dumpRet' = written
                      /\ dumpOut' = SubSeq(out, 1, term)
    /\ UNCHANGED <<log_mutex, s_log_buffer, s_log_lengths, s_write_idx, s_total_written,
                   s_reader_pos, s_reader_active, appended, rdVars, addOp, sseVars, linkVars>>

\* A reader call is made: op, the reader id given (or returned, for an
\* allocation), and whether the call took the mutex.
LogCall(op, id, ok) ==
    /\ logOp.n < MaxReaderCalls
    /\ logOp' = [op |-> op, id |-> id, ok |-> ok, n |-> logOp.n + 1]

\* The reader_id arguments: every slot, and one id off either end.
ReaderArgs == (-1)..MAX_READERS

\* The first inactive reader slot (MAX_READERS: none), as the loop of
\* log_buffer_alloc_reader finds it.
FirstFree ==
    IF \E i \in ReaderIds : ~s_reader_active[i]
    THEN CHOOSE i \in ReaderIds :
            ~s_reader_active[i] /\ \A j \in ReaderIds : j < i => s_reader_active[j]
    ELSE MAX_READERS

\* s_reader_pos[i] = s_total_written: where a new reader starts; old is the
\* position the slot held.
StartPosStale(old) == old
StartPos(old) == s_total_written

\* log_buffer_alloc_reader(); lockOk: the mutex was taken within the 100 ms
\* wait.
AllocReader(lockOk) ==
    /\    IF log_mutex /\ lockOk /\ FirstFree < MAX_READERS
          THEN /\ s_reader_active' = [s_reader_active EXCEPT ![FirstFree] = TRUE]
               /\ s_reader_pos' = [s_reader_pos EXCEPT ![FirstFree] = StartPos(@)]
               /\ reuse' = [reuse EXCEPT ![FirstFree] =
                                IF @ = "never" THEN "first"
                                ELSE IF s_reader_pos[FirstFree] < s_total_written
                                     THEN "behind" ELSE "caughtup"]
               /\ LogCall("alloc", FirstFree, TRUE)
               /\ allocAt' = [allocAt EXCEPT ![FirstFree] = Len(appended)]
               /\ lastGot' = [lastGot EXCEPT ![FirstFree] = 0]
               /\ readPtr' = [readPtr EXCEPT ![FirstFree] = -1]
               /\ readLen' = [readLen EXCEPT ![FirstFree] = 0]
          ELSE /\ LogCall("alloc", -1, log_mutex /\ lockOk)
               /\ UNCHANGED <<s_reader_active, s_reader_pos, allocAt, lastGot, reuse,
                              readPtr, readLen>>
    /\ UNCHANGED <<log_mutex, s_log_buffer, s_log_lengths, s_write_idx, s_total_written,
                   dumpSize, dumpLocked, dumpRet, dumpOut, appended, addOp, linkVars>>

log_buffer_alloc_reader ==
    /\ \E lockOk \in BOOLEAN : AllocReader(lockOk)
    /\ UNCHANGED sseVars

\* s_reader_active[reader_id] = false.
DeactivateAll(reader_id) == [i \in ReaderIds |-> FALSE]
Deactivate(reader_id) == [s_reader_active EXCEPT ![reader_id] = FALSE]

\* log_buffer_free_reader(reader_id); lockOk: the mutex was taken within the
\* 100 ms wait.
FreeReader(reader_id, lockOk) ==
    /\    LET valid == log_mutex /\ reader_id >= 0 /\ reader_id < MAX_READERS
          IN  /\ LogCall("free", reader_id, valid /\ lockOk)
              /\ IF valid /\ lockOk
                 THEN s_reader_active' = Deactivate(reader_id)
                 ELSE UNCHANGED s_reader_active
    /\ UNCHANGED <<log_mutex, s_log_buffer, s_log_lengths, s_write_idx, s_total_written,
                   s_reader_pos, dumpSize, dumpLocked, dumpRet, dumpOut, appended,
                   readPtr, readLen, allocAt, lastGot, reuse, addOp, linkVars>>

log_buffer_free_reader ==
    /\ \E reader_id \in ReaderArgs, lockOk \in BOOLEAN : FreeReader(reader_id, lockOk)
    /\ UNCHANGED sseVars

\* The place in appended of the line whose characters a slot holds (0: the
\* slot is empty).
PlaceOf(text) ==
    IF text = <<>> THEN 0
    ELSE CHOOSE k \in 1..Len(LineChars) : LineChars[k] = text[1]

\* s_reader_pos[reader_id] < s_total_written: the reader has lines to read.
HasUnreadOrNone(pos) == pos <= s_total_written
HasUnread(pos) == pos < s_total_written

\* lines_behind > LOG_BUFFER_LINES: the reader fell behind.
FellBehindNever(lines_behind) == FALSE
FellBehind(lines_behind) == lines_behind > LOG_BUFFER_LINES

\* log_buffer_read(reader_id, out_len), out_len non-NULL; lockOk: the mutex
\* was taken within the 10 ms wait.
ReadLine(reader_id, lockOk) ==
    /\    LET valid == log_mutex /\ reader_id >= 0 /\ reader_id < MAX_READERS
          IN  /\ LogCall("read", reader_id, valid /\ lockOk)
              /\ IF ~valid
                 THEN UNCHANGED <<s_reader_pos, readPtr, readLen, lastGot>>
                 ELSE IF lockOk /\ s_reader_active[reader_id]
                            /\ HasUnread(s_reader_pos[reader_id])
                 THEN LET behind == s_total_written - s_reader_pos[reader_id]
                          pos == IF FellBehind(behind)
                                 THEN s_total_written - LOG_BUFFER_LINES
                                 ELSE s_reader_pos[reader_id]
                          lines_behind == IF FellBehind(behind) THEN LOG_BUFFER_LINES
                                          ELSE behind
                          buf_idx == (s_write_idx - lines_behind + LOG_BUFFER_LINES)
                                         % LOG_BUFFER_LINES
                      IN  /\ readPtr' = [readPtr EXCEPT ![reader_id] = buf_idx]
                          /\ readLen' = [readLen EXCEPT ![reader_id] = s_log_lengths[buf_idx]]
                          /\ s_reader_pos' = [s_reader_pos EXCEPT ![reader_id] = pos + 1]
                          /\ lastGot' = [lastGot EXCEPT
                                            ![reader_id] = PlaceOf(s_log_buffer[buf_idx])]
                 ELSE /\ readPtr' = [readPtr EXCEPT ![reader_id] = -1]
                      /\ readLen' = [readLen EXCEPT ![reader_id] = 0]
                      /\ UNCHANGED <<s_reader_pos, lastGot>>
    /\ UNCHANGED <<log_mutex, s_log_buffer, s_log_lengths, s_write_idx, s_total_written,
                   s_reader_active, dumpSize, dumpLocked, dumpRet, dumpOut, appended,
                   allocAt, reuse, addOp, linkVars>>

log_buffer_read ==
    /\ \E reader_id \in ReaderArgs, lockOk \in BOOLEAN : ReadLine(reader_id, lockOk)
    /\ UNCHANGED sseVars

\* ------------------------------------------------------------------------
\* http_server.c: logs_sse_handler (HTTP server task)
\* ------------------------------------------------------------------------
Handlers == 1..MaxHandlers

\* A client connects: log_buffer_alloc_reader, and the 503 answer when it
\* returns no slot.
sse_connect(h) ==
    /\ ssePc[h] = "idle"
    /\ \E lockOk \in BOOLEAN : AllocReader(lockOk)
    /\ sseReader' = [sseReader EXCEPT ![h] = logOp'.id]
    /\ ssePc' = [ssePc EXCEPT ![h] = IF logOp'.id < 0 THEN "refused" ELSE "init_msg"]
    /\ UNCHANGED sseIdle

\* The connected comment is written; when the write fails the reader is
\* freed and the handler returns.
sse_init_msg(h) ==
    /\ ssePc[h] = "init_msg"
    /\ \E sent \in BOOLEAN :
          IF sent
          THEN /\ ssePc' = [ssePc EXCEPT ![h] = "loop"]
               /\ UNCHANGED <<streamVars, linkVars, sseReader, sseIdle>>
          ELSE /\ \E lockOk \in BOOLEAN : FreeReader(sseReader[h], lockOk)
               /\ ssePc' = [ssePc EXCEPT ![h] = "ended"]
               /\ UNCHANGED <<sseReader, sseIdle>>

\* One turn of the loop: log_buffer_read, then the data chunk, or the
\* keepalive after MAX_IDLE empty polls, and the 50 ms delay; a failed write
\* leaves the loop.
sse_poll(h) ==
    /\ ssePc[h] = "loop"
    /\ \E lockOk \in BOOLEAN : ReadLine(sseReader[h], lockOk)
    /\ \E sent \in BOOLEAN :
          IF readPtr'[sseReader[h]] >= 0 /\ readLen'[sseReader[h]] > 0
          THEN /\ sseIdle' = [sseIdle EXCEPT ![h] = 0]
               /\ ssePc' = [ssePc EXCEPT ![h] = IF sent THEN "loop" ELSE "cleanup"]
          ELSE IF sseIdle[h] + 1 >= MAX_IDLE
          THEN /\ sseIdle' = [sseIdle EXCEPT ![h] = 0]
               /\ ssePc' = [ssePc EXCEPT ![h] = IF sent THEN "loop" ELSE "cleanup"]
          ELSE /\ sseIdle' = [sseIdle EXCEPT ![h] = @ + 1]
               /\ sent
               /\ UNCHANGED ssePc
    /\ UNCHANGED sseReader

\* After the loop: log_buffer_free_reader and the final chunk.
sse_cleanup(h) ==
    /\ ssePc[h] = "cleanup"
    /\ \E lockOk \in BOOLEAN : FreeReader(sseReader[h], lockOk)
    /\ ssePc' = [ssePc EXCEPT ![h] = "ended"]
    /\ UNCHANGED <<sseReader, sseIdle>>

logs_sse_handler ==
    \E h \in Handlers : sse_connect(h) \/ sse_init_msg(h) \/ sse_poll(h) \/ sse_cleanup(h)

\* ------------------------------------------------------------------------
\* The event log's callers
\* ------------------------------------------------------------------------
\* The type arguments: two event types, and EVT_COUNT, which is none.
EvtArgs == {"USB_MOUNTED", "FIRST_RX", "EVT_COUNT"}
\* The detail arguments, character by character: NULL, a detail that fills
\* the field and one that is two characters too long.
DetailChars == <<"p", "q", "r", "s", "t", "u", "v", "w">>
DetailArgs == {SubSeq(DetailChars, 1, n) : n \in {0, MAX_DETAIL_LEN - 1, MAX_DETAIL_LEN + 1}}

\* An event log call is made; a millisecond passes.
EvtCall(op, type, detail, ok, ret) ==
    /\ evOp.n < MaxEventCalls
    /\ evOp' = [op |-> op, type |-> type, detail |-> detail, ok |-> ok, ret |-> ret,
                n |-> evOp.n + 1]
    /\ now' = now + 1
    /\ UNCHANGED renderOp

\* A caller's event_log_record(type, detail).
EventLogRecord ==
    /\ \E type \in EvtArgs, detail \in DetailArgs, lockOk \in BOOLEAN :
          /\ SetEvt(event_log_record(EvtState, type, detail, now, lockOk))
          /\ EvtCall("record", type, detail, evt_mutex /\ type \in EventTypes /\ lockOk, FALSE)
          /\ recCalled' = recCalled \cup ({type} \cap EventTypes)
    /\ UNCHANGED <<sessVars, drvVars, initPc, wdPc, wdWake, t, usbPc, usbWake, histVars,
                   logVars, txVars, slVars, rxVars>>

\* A caller's event_log_has(type).
EventLogHas ==
    /\ \E type \in EvtArgs, lockOk \in BOOLEAN :
          EvtCall("has", type, <<>>, evt_mutex /\ type \in EventTypes /\ lockOk,
                  event_log_has(EvtState, type, lockOk))
    /\ UNCHANGED <<sessVars, drvVars, evtVars, initPc, wdPc, wdWake, t, usbPc, usbWake,
                   histVars, recCalled, logVars, txVars, slVars, rxVars>>

\* The size arguments: no room but for the terminator, less than the first
\* text, sizes below and above the 50 and 100 bytes the loops keep free, and
\* a size that holds a whole dump (the callers in http_server.c pass 4096
\* and 1024).
RenderSizes == {1, 30, 60, 99, 150, 1000}

\* A caller's event_log_get_all(buf, size) / event_log_get_status_json(buf,
\* size).
EventLogRender(op) ==
    /\ \E size \in RenderSizes, lockOk \in BOOLEAN, overflowFails \in BOOLEAN :
          LET r == IF op = "get_all"
                   THEN event_log_get_all(EvtState, size, lockOk, overflowFails)
                   ELSE event_log_get_status_json(EvtState, size, lockOk, overflowFails)
          IN  renderOp' = [op |-> op, size |-> size, ret |-> r.written, hi |-> r.hi]
    /\ UNCHANGED <<sessVars, drvVars, evtVars, taskVars, histVars, evOp, recCalled, logVars,
                   txVars, slVars, rxVars>>

\* The startup call of event_log_init.
EventLogInit ==
    /\ ~evt_mutex
    /\ SetEvt(event_log_init(EvtState))
    /\ UNCHANGED <<sessVars, drvVars, taskVars, histVars, evtCallVars, logVars, txVars,
                   slVars, rxVars>>

EventLogGetAll == EventLogRender("get_all")
EventLogGetStatusJson == EventLogRender("get_status_json")

\* ------------------------------------------------------------------------
\* Specifications
\* ------------------------------------------------------------------------
\* The static state, before log_buffer_init and network_init; evtInit:
\* event_log_init has run.
Boot(evtInit) ==
    /\ s_netif = FALSE
    /\ s_stack_ready = FALSE
    /\ s_usb_mounted = FALSE
    /\ s_link_up = FALSE
    /\ s_mount_ms = 0
    /\ s_last_rx_ms = 0
    /\ s_last_recover_ms = 0
    /\ s_backoff_ms = USB_RECOVER_BACKOFF_START_MS
    /\ s_recover_attempts = 0
    /\ s_first_rx_logged = FALSE
    /\ s_first_tx_logged = FALSE
    /\ s_rx_packets = 0
    /\ s_rx_bytes = 0
    /\ linkSignal = "none"
    /\ drvCalls = <<>>
    /\ reenum = TRUE
    /\ evt_mutex = evtInit
    /\ s_events = <<>>
    /\ s_event_occurred = [e \in EventTypes |-> FALSE]
    /\ now = BootMs
    /\ initPc = "install"
    /\ wdPc = "none"
    /\ wdWake = 0
    /\ t = 0
    /\ usbPc = "idle"
    /\ usbWake = 0
    /\ suspended = FALSE
    /\ lastMountAt = -1
    /\ recSinceMount = -1
    /\ graceStart = -1
    /\ recCount = 0
    /\ recAt = -1
    /\ rxSinceMount = FALSE
    /\ umountInRec = FALSE
    /\ mountInRec = FALSE
    /\ kickQuiet = FALSE
    /\ secondTrig = FALSE
    /\ kickSeq = <<>>
    /\ nCallbacks = 0
    /\ s_tx_packets = 0
    /\ s_tx_bytes = 0
    /\ txPc = "idle"
    /\ txAttempt = 0
    /\ txOp = [n |-> 0, mounted |-> FALSE, linkUp |-> FALSE, sends |-> 0, okSeen |-> FALSE,
               ret |-> "none", firstTx |-> FALSE]
    /\ slPc = [task \in LinkTasks |-> "idle"]
    /\ slUp = [task \in LinkTasks |-> <<FALSE, NoDetail>>]
    /\ slCalls = 0
    /\ rxOp = [n |-> 0, buffer |-> <<>>, reads |-> {}]
    /\ addOp = [res |-> "none", tick |-> FALSE]
    /\ ssePc = [h \in Handlers |-> "idle"]
    /\ sseReader = [h \in Handlers |-> -1]
    /\ sseIdle = [h \in Handlers |-> 0]
    /\ evOp = [op |-> "none", type |-> "EVT_COUNT", detail |-> <<>>, ok |-> FALSE,
               ret |-> FALSE, n |-> 0]
    /\ recCalled = {}
    /\ renderOp = [op |-> "none", size |-> 0, ret |-> 0, hi |-> 0]
    /\ log_mutex = FALSE
    /\ s_log_buffer = [i \in LogSlots |-> <<>>]
    /\ s_log_lengths = [i \in LogSlots |-> 0]
    /\ s_write_idx = 0
    /\ s_total_written = 0
    /\ s_reader_pos = [r \in ReaderIds |-> 0]
    /\ s_reader_active = [r \in ReaderIds |-> FALSE]
    /\ dumpSize = -1
    /\ dumpLocked = FALSE
    /\ dumpRet = 0
    /\ dumpOut = <<>>
    /\ appended = <<>>
    /\ readPtr = [r \in ReaderIds |-> -1]
    /\ readLen = [r \in ReaderIds |-> 0]
    /\ logOp = [op |-> "none", id |-> -1, ok |-> FALSE, n |-> 0]
    /\ allocAt = [r \in ReaderIds |-> 0]
    /\ lastGot = [r \in ReaderIds |-> 0]
    /\ reuse = [r \in ReaderIds |-> "never"]

\* After event_log_init.
Init == Boot(TRUE)
\* Before event_log_init: the state the program is loaded with.
InitCold == Boot(FALSE)

network_init ==
    \/ network_init_install
    \/ network_init_netif
    \/ network_init_start

\* The link session under every interleaving of the driver's callbacks with
\* the watchdog.
Next ==
    \/ network_init
    \/ tud_mount_cb(MaxCallbacks)
    \/ tud_umount_cb(MaxCallbacks)
    \/ tud_suspend_cb(MaxCallbacks)
    \/ tud_resume_cb(MaxCallbacks)
    \/ tud_resume_cb_kick_up
    \/ netif_recv_callback(MaxCallbacks, LinkFrames)
    \/ usb_watchdog_task
    \/ Advance(MaxTime)

Spec == Init /\ [][Next]_vars

\* One mount cycle after another with no frame received: the driver only
\* mounts.
CycleEnd == IF lastMountAt < 0 THEN BootMs + MaxIdle ELSE lastMountAt + MaxTimeCycle

NextCycle ==
    \/ network_init
    \/ tud_mount_cb(MaxMounts)
    \/ usb_watchdog_task
    \/ Advance(CycleEnd)

SpecCycle == Init /\ [][NextCycle]_vars

\* The host is plugged once and never unplugged or replugged, and no frame
\* arrives: the driver mounts the device when the host has enumerated it,
\* after the plug and after every tud_connect.
tud_mount_cb_enumerated == reenum /\ tud_mount_cb(MaxReenum)

NextReattach ==
    \/ network_init
    \/ tud_mount_cb_enumerated
    \/ usb_watchdog_task
    \/ Advance(MaxTimeReattach)

SpecReattach == Init /\ [][NextReattach]_vars

\* The log stream: lines are added and the buffer is dumped.
NextLog ==
    \/ log_buffer_init
    \/ log_buffer_add
    \/ log_buffer_get_all

SpecLog == Init /\ [][NextLog]_vars

\* The link session with frames to transmit, up to MaxTimeTx, which is
\* before the first grace period can end: the driver mounts and unmounts,
\* the watchdog raises the link, and lwIP calls netif_transmit.
NextTx ==
    \/ network_init
    \/ tud_mount_cb(MaxTxCallbacks)
    \/ tud_umount_cb(MaxTxCallbacks)
    \/ wd_top
    \/ wd_kick_up
    \/ wd_check
    \/ netif_transmit
    \/ Advance(MaxTimeTx)

SpecTx == Init /\ [][NextTx]_vars

\* The log stream with its stream handlers: lines are added while clients
\* connect, are served and drop.
NextSse ==
    \/ log_buffer_init
    \/ log_buffer_add_line
    \/ logs_sse_handler

SpecSse == Init /\ [][NextSse]_vars

\* usb_set_link_state as the TinyUSB task and the watchdog task call it,
\* one task preempting the other between its statements.
NextSetLink == usb_set_link_state_calls

SpecSetLink == Init /\ [][NextSetLink]_vars

\* Mount cycles with frames received, up to MaxTimeTx: the driver mounts,
\* unmounts and, while the device is configured, delivers frames; the
\* watchdog raises the link.
netif_recv_callback_mounted == s_usb_mounted /\ netif_recv_callback(MaxRxCallbacks, LinkFrames)

NextRx ==
    \/ network_init
    \/ tud_mount_cb(MaxRxCallbacks)
    \/ tud_umount_cb(MaxRxCallbacks)
    \/ netif_recv_callback_mounted
    \/ wd_top
    \/ wd_kick_up
    \/ wd_check
    \/ Advance(MaxTimeTx)

SpecRx == Init /\ [][NextRx]_vars

\* Calls on the event log and the log stream that take or miss the lock, a
\* few in a behaviour.
LockBudget == logOp.n + evOp.n + Len(appended) < MaxLockCalls

LocksAdd ==
    /\ LockBudget
    /\ \E lockOk \in BOOLEAN :
          /\ AddLine(1 + (Len(appended) % LOG_LINE_MAX_LEN), lockOk)
          /\ addOp' = [res |-> IF ~log_mutex THEN "invalid"
                               ELSE IF lockOk THEN "stored" ELSE "nolock",
                       tick |-> ~addOp.tick]
LocksAlloc == LockBudget /\ log_buffer_alloc_reader
LocksRead == LockBudget /\ log_buffer_read
LocksRecord == LockBudget /\ EventLogRecord

NextLocks ==
    \/ log_buffer_init
    \/ LocksAdd
    \/ LocksAlloc
    \/ LocksRead
    \/ LocksRecord

SpecLocks == Init /\ [][NextLocks]_vars

\* The event log recorded into and dumped.
RenderRecord == evOp.n < MaxRenderRecords /\ EventLogRecord

NextRender ==
    \/ RenderRecord
    \/ EventLogGetAll
    \/ EventLogGetStatusJson

SpecRender == Init /\ [][NextRender]_vars

\* The program from its load: both modules start uninitialised, their
\* interfaces are called and the driver's callbacks fire before and after
\* event_log_init and log_buffer_init.
ColdCalls ==
    evOp.n + logOp.n + (IF renderOp.op = "none" THEN 0 ELSE 1)
        + (IF dumpSize = -1 THEN 0 ELSE 1)
CanCall == ColdCalls < MaxColdCalls
ColdRecord == CanCall /\ EventLogRecord
ColdHas == CanCall /\ EventLogHas
ColdGetAll == CanCall /\ renderOp.op = "none" /\ EventLogGetAll
ColdGetStatusJson == CanCall /\ renderOp.op = "none" /\ EventLogGetStatusJson
ColdAdd == Len(appended) < MaxColdWrites /\ log_buffer_add_line
ColdAlloc == CanCall /\ log_buffer_alloc_reader
ColdFree == CanCall /\ log_buffer_free_reader
ColdRead == CanCall /\ log_buffer_read
ColdDump == CanCall /\ dumpSize = -1 /\ log_buffer_get_all

NextCold ==
    \/ EventLogInit
    \/ log_buffer_init
    \/ ColdRecord
    \/ ColdHas
    \/ ColdGetAll
    \/ ColdGetStatusJson
    \/ ColdAdd
    \/ ColdAlloc
    \/ ColdFree
    \/ ColdRead
    \/ ColdDump
    \/ network_init
    \/ tud_mount_cb(MaxColdCallbacks)

SpecCold == InitCold /\ [][NextCold]_vars

\* The event log under the calls of its interface.
NextEvents ==
    \/ EventLogRecord
    \/ EventLogHas

SpecEvents == Init /\ [][NextEvents]_vars

\* The log stream and its readers: lines are added while readers are
\* allocated, read and freed.
NextReaders ==
    \/ log_buffer_init
    \/ log_buffer_add_line
    \/ log_buffer_alloc_reader
    \/ log_buffer_free_reader
    \/ log_buffer_read

SpecReaders == Init /\ [][NextReaders]_vars

\* Frames of every kind received in a mount cycle, up to MaxTimeClassify.
NextClassify ==
    \/ network_init
    \/ tud_mount_cb(MaxClassifyCallbacks)
    \/ netif_recv_callback_buffer
    \/ wd_top
    \/ wd_kick_up
    \/ wd_check
    \/ Advance(MaxTimeClassify)

SpecClassify == Init /\ [][NextClassify]_vars

\* The link session with the tasks scheduled fairly: the driver mounts,
\* unmounts, suspends and resumes; a task whose vTaskDelay has ended runs,
\* and the clock runs while every task sleeps.
NextKick ==
    \/ network_init
    \/ tud_mount_cb(MaxKickCallbacks)
    \/ tud_umount_cb(MaxKickCallbacks)
    \/ tud_suspend_cb(MaxKickCallbacks)
    \/ tud_resume_cb(MaxKickCallbacks)
    \/ tud_resume_cb_kick_up
    \/ usb_watchdog_task
    \/ Advance(MaxTimeKick)

FairKick ==
    /\ WF_vars(usb_watchdog_task)
    /\ WF_vars(tud_resume_cb_kick_up)
    /\ WF_vars(Advance(MaxTimeKick))

SpecKick == Init /\ [][NextKick]_vars /\ FairKick

\* ------------------------------------------------------------------------
\* Claims
\* ------------------------------------------------------------------------
Disconnects == Len(SelectSeq(drvCalls, LAMBDA c : c = "tud_disconnect"))

\* C1: in every reachable state of the link session, linkUp implies
\* mounted, stackReady and not suspended.
C1_LinkUpImpliesMountedReadyNotSuspended ==
    s_link_up => (s_usb_mounted /\ s_stack_ready /\ ~suspended)

\* C2: when a recovery sequence during which tud_umount_cb was delivered has
\* finished, the session is unmounted, linkUp is false and the driver's link
\* signal is down.
C2_UnmountWinsOverRecovery ==
    (wdPc = "top" /\ umountInRec)
        => (~s_usb_mounted /\ ~s_link_up /\ linkSignal = FALSE)

\* C3: within one mount cycle with no frame received, recoveryAttempts never
\* exceeds the maximum and counts the recovery sequences started since the
\* mount, so at most the maximum of them start before the next onMount.
C3_AttemptsBounded ==
    /\ s_recover_attempts <= USB_RECOVER_MAX_ATTEMPTS
    /\ recCount = s_recover_attempts

\* C3 happens: a tick finds every recovery condition met but the attempt cap.
C3_Witness ==
    /\ wdPc = "check"
    /\ s_recover_attempts = USB_RECOVER_MAX_ATTEMPTS
    /\ RecoverConditionNoCap

\* C4: with no frame ever received and no physical unplug or replug, the
\* watchdog gives up: it forces no more disconnects than the configured
\* maximum, also when the host re-enumerates after every forced reconnect.
C4_WatchdogGivesUp ==
    Disconnects <= USB_RECOVER_MAX_ATTEMPTS

\* C5: a tick of a mount cycle with no reception, the mount before the tick
\* and the grace window elapsed: less than backoffInterval after the
\* previous attempt it leaves recoveryAttempts unchanged; at least
\* backoffInterval after it, or with no attempt yet, it adds exactly one,
\* until the maximum, after which it changes nothing.
C5_TickInCycle ==
    /\ wdPc = "check" /\ wdPc' # "check"
    /\ s_usb_mounted /\ s_stack_ready /\ ~rxSinceMount
    /\ lastMountAt >= 0 /\ lastMountAt <= t
    /\ graceStart <= t /\ t - graceStart >= USB_NO_RX_GRACE_MS
C5_BackoffElapsed == recAt = -1 \/ t - recAt >= s_backoff_ms
C5_TickEffect ==
    C5_TickInCycle =>
        s_recover_attempts' =
            IF s_recover_attempts < USB_RECOVER_MAX_ATTEMPTS /\ C5_BackoffElapsed
            THEN s_recover_attempts + 1
            ELSE s_recover_attempts
C5_Backoff == [][C5_TickEffect]_vars

\* C5 happens: after the second attempt, a tick is held back by the backoff
\* alone.
C5_Witness ==
    /\ wdPc = "check"
    /\ s_recover_attempts = 2
    /\ s_usb_mounted /\ ~rxSinceMount
    /\ lastMountAt >= 0 /\ lastMountAt <= t
    /\ graceStart <= t /\ t - graceStart >= USB_NO_RX_GRACE_MS
    /\ ~C5_BackoffElapsed

\* C6: after onMount, then stack-readiness, and no frame for longer than the
\* grace window, once the first recovery sequence has finished
\* recoveryAttempts is 1 and the event sequence holds, in this order,
\* USB_MOUNTED, NCM_LINK_UP(stack_ready_kick_up) and an event recording the
\* recovery attempt.
\* event_type_t declares no type for a recovery attempt.
RecoveryAttemptTypes == EventTypes \ {EVENT_NAMES[i] : i \in 1..EVT_COUNT}
C6_ScenarioDone ==
    /\ nCallbacks = 1
    /\ Len(s_events) >= 2
    /\ s_events[1].type = "USB_MOUNTED"
    /\ s_events[2].type = "NETIF_READY"
    /\ recCount = 1
    /\ wdPc = "top"
C6_RecoveryScenario ==
    C6_ScenarioDone =>
        /\ s_recover_attempts = 1
        /\ \E i, j, k \in 1..Len(s_events) :
              /\ i < j /\ j < k
              /\ s_events[i].type = "USB_MOUNTED"
              /\ s_events[j].type = "NCM_LINK_UP"
              /\ s_events[j].detail = Reason("stack_ready_kick_up")
              /\ s_events[k].type \in RecoveryAttemptTypes

\* C7: no recovery sequence starts earlier than the grace window after the
\* most recent onMount.
C7_RecoveryRespectsGrace ==
    recSinceMount = -1 \/ recSinceMount >= USB_NO_RX_GRACE_MS

\* C8: when a recovery sequence during which tud_mount_cb was delivered has
\* finished, the session holds the values the mount set: recoveryAttempts 0,
\* backoffInterval at its floor, mountTimestamp the time of that mount.
C8_MountValuesSurviveRecovery ==
    (wdPc = "top" /\ usbPc = "idle" /\ mountInRec)
        => /\ s_recover_attempts = 0
           /\ s_backoff_ms = USB_RECOVER_BACKOFF_START_MS
           /\ s_mount_ms = lastMountAt

\* C9: a tick that follows the watchdog's kick with no other event in
\* between finds linkUp true and sends no link signal: the two triggers
\* produce one link-down followed by one link-up.
C9_KickIdempotent ==
    secondTrig =>
        /\ wdPc = "check"
        /\ kickSeq = <<FALSE, TRUE>>
        /\ s_link_up
        /\ linkSignal = TRUE

\* C9 happens: the second trigger has run.
C9_Witness == secondTrig /\ wdPc = "check" /\ s_usb_mounted /\ s_stack_ready

\* The line of appended as log_buffer_add keeps it: its prefix of at most
\* LOG_LINE_MAX_LEN - 1 characters.
C10_Kept(line) == SubSeq(line, 1, Min(Len(line), LOG_LINE_MAX_LEN - 1))
\* Lines lo..hi of appended, oldest first, each followed by a newline.
RECURSIVE C10_Lines(_, _)
C10_Lines(lo, hi) ==
    IF lo > hi THEN <<>>
    ELSE C10_Kept(appended[lo]) \o <<"\n">> \o C10_Lines(lo + 1, hi)
C10_Expected ==
    C10_Lines(Len(appended) - Min(Len(appended), LOG_BUFFER_LINES) + 1, Len(appended))

\* C10: after N non-empty lines were appended, a dump that took the lock,
\* into a buffer with room for every resident line and the terminator,
\* returns the last min(N, capacity) lines as stored, each once, oldest
\* first, each followed by a newline, and returns their total length.
C10_DumpAllReturnsLastLines ==
    (dumpLocked /\ dumpSize > Len(C10_Expected))
        => (dumpOut = C10_Expected /\ dumpRet = Len(C10_Expected))

\* C10 happens: more lines than the capacity were appended, one of them
\* longer than a slot holds, and all resident lines were dumped.
C10_Witness ==
    /\ dumpLocked
    /\ Len(appended) = LOG_BUFFER_LINES + 2
    /\ \E k \in 1..Len(appended) : Len(appended[k]) > LOG_LINE_MAX_LEN - 1
    /\ dumpSize > Len(C10_Expected)
    /\ dumpRet = Len(C10_Expected)
    /\ dumpRet >= 2 * LOG_BUFFER_LINES

\* A step is a log_buffer_read call of reader r that took the mutex.
ReadStep(r) ==
    /\ logOp'.n = logOp.n + 1
    /\ logOp'.op = "read" /\ logOp'.id = r /\ logOp'.ok
\* The line the call handed to reader r, as the consumer sees it.
HandedLine(r) == SubSeq(s_log_buffer'[readPtr'[r]], 1, readLen'[r])

\* C11: a reader that was allocated and handed nothing while more than
\* capacity lines were appended is handed, by its next read that takes the
\* lock, the oldest line still resident (the one written at index
\* totalWritten - capacity), and is left capacity - 1 lines from caught up.
C11_CatchUpStep ==
    \A r \in ReaderIds :
        (/\ ReadStep(r)
         /\ s_reader_active[r]
         /\ lastGot[r] = 0
         /\ s_reader_pos[r] = allocAt[r]
         /\ Len(appended) - allocAt[r] > LOG_BUFFER_LINES)
        => /\ readPtr'[r] \in LogSlots
           /\ HandedLine(r) = C10_Kept(appended[Len(appended) - LOG_BUFFER_LINES + 1])
           /\ s_total_written' - s_reader_pos'[r] = LOG_BUFFER_LINES - 1
C11_ReaderCatchUp == [][C11_CatchUpStep]_vars

\* C11 happens: a reader was allocated before the first line, every line was
\* appended, and its first read handed it the oldest resident line.
C11_Witness ==
    /\ logOp.op = "read" /\ logOp.ok /\ logOp.id = 0 /\ logOp.n = 2
    /\ s_reader_active[0]
    /\ allocAt[0] = 0
    /\ Len(appended) = MaxWrites
    /\ lastGot[0] = MaxWrites - LOG_BUFFER_LINES + 1
    /\ lastGot[0] > 1

\* A step is a log_buffer_read call that took the mutex for the active
\* reader r.
ReadAttempt(r) == ReadStep(r) /\ s_reader_active[r]

\* C12: for an active reader and a read that takes the lock: the line handed
\* out is a stored line, later in append order than the line the reader was
\* handed before (so the lines handed out are a subsequence of the appended
\* lines, none twice); every line the read skips has more than capacity - 1
\* newer lines; and the read hands out none exactly when the reader's
\* position equals totalWritten.
C12_ReadEffect ==
    \A r \in ReaderIds :
        ReadAttempt(r) =>
            /\ (readPtr'[r] = -1) <=> (s_reader_pos[r] = s_total_written)
            /\ readPtr'[r] # -1 =>
                  LET p == PlaceOf(HandedLine(r)) IN
                  /\ p \in 1..Len(appended)
                  /\ HandedLine(r) = C10_Kept(appended[p])
                  /\ p > lastGot[r]
                  /\ p > s_reader_pos[r]
                  /\ s_reader_pos'[r] = p
                  /\ \A k \in (s_reader_pos[r] + 1)..(p - 1) :
                        Len(appended) - k > LOG_BUFFER_LINES - 1
C12_ReaderSubsequence == [][C12_ReadEffect]_vars

\* C12 happens: a reader allocated before the first line has been handed
\* the newest of several lines, and its next read handed it none.
C12_Witness ==
    /\ logOp.op = "read" /\ logOp.ok /\ logOp.id = 0
    /\ s_reader_active[0]
    /\ allocAt[0] = 0
    /\ readPtr[0] = -1
    /\ Len(appended) >= LOG_BUFFER_LINES
    /\ lastGot[0] = Len(appended)
    /\ s_reader_pos[0] = s_total_written

\* A step is a log_buffer_alloc_reader call that returned reader r.
AllocStep(r) ==
    /\ logOp'.n = logOp.n + 1
    /\ logOp'.op = "alloc" /\ logOp'.id = r

\* C13: an allocation sets the new reader's position to totalWritten, and
\* no read hands a reader a line appended before its allocation, also in a
\* slot whose freed reader was behind.
C13_AllocEffect ==
    \A r \in ReaderIds :
        /\ AllocStep(r) => s_reader_pos'[r] = s_total_written
        /\ (ReadAttempt(r) /\ readPtr'[r] # -1)
              => PlaceOf(HandedLine(r)) > allocAt[r]
C13_NoReplay == [][C13_AllocEffect]_vars

\* C13 happens: a slot whose freed reader was behind was allocated again
\* after several lines, and the new reader's first read handed it the first
\* line appended since.
C13_Witness ==
    /\ logOp.op = "read" /\ logOp.ok /\ logOp.id = 0
    /\ s_reader_active[0]
    /\ reuse[0] = "behind"
    /\ allocAt[0] >= 2
    /\ lastGot[0] = allocAt[0] + 1
    /\ s_reader_pos[0] = allocAt[0] + 1

\* A step is a log_buffer_alloc_reader call made after log_buffer_init.
AllocCall ==
    /\ log_mutex
    /\ logOp'.n = logOp.n + 1
    /\ logOp'.op = "alloc"

\* C14: an allocation returns the id of a slot that was inactive and marks
\* it active, and returns none (on which logs_sse_handler answers 503 "Too
\* many log clients") if and only if every reader slot is active, leaving
\* every slot unchanged.
C14_AllocStep ==
    AllocCall =>
        LET reader_id == logOp'.id IN
        /\ (reader_id = -1) <=> (\A i \in ReaderIds : s_reader_active[i])
        /\ reader_id # -1 =>
              /\ ~s_reader_active[reader_id]
              /\ s_reader_active' = [s_reader_active EXCEPT ![reader_id] = TRUE]
        /\ reader_id = -1 => UNCHANGED <<s_reader_active, s_reader_pos>>
C14_AllocNoneIffExhausted == [][C14_AllocStep]_vars

\* A step is a call op of the reader interface with the argument id.
ReaderCall(op, id) ==
    /\ logOp'.n = logOp.n + 1
    /\ logOp'.op = op /\ logOp'.id = id
\* The line buffer and its counters.
C15_Buffer == <<s_log_buffer, s_log_lengths, s_write_idx, s_total_written>>

\* C15: log_buffer_read(id) and log_buffer_free_reader(id) leave every other
\* reader's position and active flag, the line buffer and totalWritten
\* unchanged (a read changes no active flag, a free no position); a step
\* that changes the line buffer or totalWritten changes no reader's
\* position or active flag.
C15_Frame ==
    /\ \A id \in ReaderArgs :
          /\ ReaderCall("read", id) =>
                /\ \A q \in ReaderIds : q # id => s_reader_pos'[q] = s_reader_pos[q]
                /\ UNCHANGED <<s_reader_active, C15_Buffer>>
          /\ ReaderCall("free", id) =>
                /\ \A q \in ReaderIds : q # id => s_reader_active'[q] = s_reader_active[q]
                /\ UNCHANGED <<s_reader_pos, C15_Buffer>>
    /\ (log_mutex /\ C15_Buffer' # C15_Buffer) => UNCHANGED <<s_reader_pos, s_reader_active>>
C15_ReadersIndependent == [][C15_Frame]_vars

\* C15 happens: two readers are active at different positions, and the one
\* behind was just freed or handed a line.
C15_Witness ==
    /\ logOp.op \in {"read", "free"} /\ logOp.ok /\ logOp.id = 0
    /\ s_reader_active[1]
    /\ s_reader_pos[1] > s_reader_pos[0]
    /\ s_reader_pos[0] > allocAt[0]
    /\ s_total_written > s_reader_pos[1]

\* C16: once event_log_record was called for a type, every later
\* event_log_has of that type returns true, whatever calls contend for the
\* event log's lock.
C16_HasAfterRecord ==
    (evOp.op = "has" /\ evOp.type \in recCalled) => evOp.ret

\* A step that is a call of event_log_record / event_log_has which took the
\* event log's lock.
RecordStep == evOp'.n = evOp.n + 1 /\ evOp'.op = "record" /\ evOp'.ok
HasStep == evOp'.n = evOp.n + 1 /\ evOp'.op = "has" /\ evOp'.ok

\* C17: the record sequence is append-only and never longer than MAX_EVENTS;
\* a record call made when it is full appends nothing and changes no stored
\* record but sets the occurrence flag of its type, which then stays set and
\* is what event_log_has returns; stored records never change.
C17_Step ==
    /\ Len(s_events') <= MAX_EVENTS
    /\ Len(s_events') >= Len(s_events)
    /\ SubSeq(s_events', 1, Len(s_events)) = s_events
    /\ \A ty \in EventTypes : s_event_occurred[ty] => s_event_occurred'[ty]
    /\ (RecordStep /\ Len(s_events) = MAX_EVENTS) =>
          /\ s_events' = s_events
          /\ s_event_occurred'[evOp'.type]
    /\ HasStep => (evOp'.ret = s_event_occurred[evOp'.type])
C17_AppendOnlyCapped == [][C17_Step]_vars
\* event_log_has returned true for a type recorded only when the sequence
\* was already full.
C17_Witness ==
    /\ evOp.op = "has" /\ evOp.ok /\ evOp.ret
    /\ Len(s_events) = MAX_EVENTS
    /\ \A i \in 1..Len(s_events) : s_events[i].type # evOp.type

\* The longest detail a record holds.
MaxDetail == MAX_DETAIL_LEN - 1

\* C18: event_log_record with a detail longer than the longest a record
\* holds stores exactly that longest prefix of it in the new record, and
\* changes no other record, no occurrence flag of another type and nothing
\* else.
C18_Step ==
    (RecordStep /\ Len(evOp'.detail) > MaxDetail /\ Len(s_events) < MAX_EVENTS) =>
        /\ s_events' = Append(s_events, [timestamp_ms |-> now, type |-> evOp'.type,
                                         detail |-> SubSeq(evOp'.detail, 1, MaxDetail)])
        /\ \A ty \in EventTypes \ {evOp'.type} : s_event_occurred'[ty] = s_event_occurred[ty]
        /\ evt_mutex' = evt_mutex
        /\ UNCHANGED <<sessVars, drvVars, initPc, wdPc, wdWake, t, usbPc, usbWake, histVars,
                       logVars>>
C18_DetailTruncated == [][C18_Step]_vars
\* A record holds the prefix of a detail that was too long, after an
\* earlier record.
C18_Witness ==
    /\ evOp.op = "record" /\ evOp.ok /\ Len(evOp.detail) > MaxDetail
    /\ Len(s_events) >= 2
    /\ s_events[Len(s_events)].type = evOp.type
    /\ s_events[Len(s_events)].timestamp_ms = now - 1
    /\ s_events[Len(s_events)].detail = SubSeq(evOp.detail, 1, MaxDetail)
    /\ Len(s_events[Len(s_events)].detail) < Len(evOp.detail)

\* A step that starts a netif_transmit call / makes one sendFrame attempt.
TxCallStep == txOp'.n = txOp.n + 1
TxSendStep == txOp'.n = txOp.n /\ txOp'.sends = txOp.sends + 1

\* C19: netif_transmit attempts a send only if s_usb_mounted and s_link_up
\* both held when the call started; otherwise it returns ESP_OK with no
\* attempt, no frame counted and no event recorded.
C19_Step ==
    /\ TxSendStep => (txOp.mounted /\ txOp.linkUp)
    /\ (TxCallStep /\ ~(s_usb_mounted /\ s_link_up)) =>
          /\ txOp'.ret = "ESP_OK"
          /\ txOp'.sends = 0
          /\ txPc' = "idle"
          /\ UNCHANGED <<s_tx_packets, s_tx_bytes, s_first_tx_logged, evtVars>>
C19_SendOnlyWhenUp == [][C19_Step]_vars
\* A call made after an unmount of a link that had carried a frame was
\* refused.
C19_Witness ==
    /\ txOp.n >= 2 /\ txOp.ret = "ESP_OK" /\ txOp.sends = 0
    /\ ~txOp.mounted
    /\ s_tx_packets = 1
    /\ txPc = "idle"

\* C20: one netif_transmit call makes at most TX_ATTEMPTS sendFrame attempts,
\* none after a successful one, and returns ESP_OK whether or not an attempt
\* succeeded; the attempts, failed or not, change no field of the link
\* session and make no driver call.
C20_Step ==
    /\ txOp'.sends <= TX_ATTEMPTS
    /\ TxSendStep =>
          /\ ~txOp.okSeen
          /\ txOp.ret = "none"
          /\ UNCHANGED <<sessVars, drvVars, evtVars, s_tx_packets, s_tx_bytes>>
    /\ TxCallStep => UNCHANGED <<s_usb_mounted, s_link_up, s_recover_attempts, drvVars>>
    /\ (txPc = "send" /\ txPc' = "idle") => txOp'.ret = "ESP_OK"
    /\ (txOp'.ret # "none") => (txOp'.ret = "ESP_OK" /\ txPc' = "idle")
C20_BoundedRetry == [][C20_Step]_vars
\* A call returned ESP_OK after TX_ATTEMPTS failed attempts, the link still
\* up.
C20_Witness ==
    /\ txPc = "idle" /\ txOp.ret = "ESP_OK"
    /\ txOp.sends = TX_ATTEMPTS /\ ~txOp.okSeen
    /\ s_usb_mounted /\ s_link_up

\* C21: FIRST_TX is recorded only for a frame of which a sendFrame attempt
\* succeeded: a netif_transmit call whose attempts all failed has recorded
\* no FIRST_TX.
C21_FirstTxOnlyOnSuccess ==
    (txPc = "idle" /\ txOp.sends > 0 /\ ~txOp.okSeen) => ~txOp.firstTx

\* The stream handlers that hold a reader slot: between the return of
\* log_buffer_alloc_reader with a slot and the handler's return.
SseRunning == {h \in Handlers : ssePc[h] \in {"init_msg", "loop", "cleanup"}}
ActiveReaders == {r \in ReaderIds : s_reader_active[r]}

\* C22: a stream handler that obtained a reader slot frees it on every path
\* by which it ends, so that no more reader slots are active than stream
\* handlers are running.
C22_SlotsFreed == Cardinality(ActiveReaders) <= Cardinality(SseRunning)

\* What the log stream and the event log hold.
StreamState == <<log_mutex, s_log_buffer, s_log_lengths, s_write_idx, s_total_written,
                 s_reader_pos, s_reader_active>>
\* Steps that are a call which did not get its component's lock.
AddMissed == addOp'.tick # addOp.tick /\ addOp'.res = "nolock"
ReadMissed ==
    /\ logOp'.n = logOp.n + 1 /\ logOp'.op = "read"
    /\ log_mutex /\ logOp'.id \in ReaderIds /\ ~logOp'.ok
AllocMissed == logOp'.n = logOp.n + 1 /\ logOp'.op = "alloc" /\ log_mutex /\ ~logOp'.ok
RecordMissed ==
    /\ evOp'.n = evOp.n + 1 /\ evOp'.op = "record"
    /\ evt_mutex /\ evOp'.type \in EventTypes /\ ~evOp'.ok

\* C23: event_log_record, log_buffer_add, log_buffer_read and
\* log_buffer_alloc_reader that cannot take the lock within the bounded wait
\* leave the event log and the log stream as they were; the read returns no
\* line and the alloc no reader, and nothing else reaches the caller.
C23_Step ==
    /\ (AddMissed \/ ReadMissed \/ AllocMissed \/ RecordMissed) =>
          UNCHANGED <<StreamState, evtVars>>
    /\ ReadMissed => (readPtr'[logOp'.id] = -1 /\ readLen'[logOp'.id] = 0)
    /\ AllocMissed => logOp'.id = -1
C23_MissedLockChangesNothing == [][C23_Step]_vars
\* A read missed the lock while its reader had a line to read.
C23_Witness ==
    /\ logOp.op = "read" /\ ~logOp.ok /\ logOp.id \in ReaderIds
    /\ s_reader_active[logOp.id]
    /\ s_reader_pos[logOp.id] < s_total_written
    /\ readPtr[logOp.id] = -1

\* A step of SpecTx that is a tud_mount_cb: of its two callbacks, the one
\* that leaves s_usb_mounted true.
TxMountStep == nCallbacks' = nCallbacks + 1 /\ s_usb_mounted'

\* C24: when tud_mount_cb returns, from any state: mounted, link down and
\* signalled down, s_mount_ms the clock, no reception time, no recovery
\* attempt, the backoff at its floor, the first-frame flags clear, and
\* USB_MOUNTED recorded.
C24_Step ==
    TxMountStep =>
        /\ s_usb_mounted' /\ ~s_link_up' /\ linkSignal' = FALSE
        /\ s_mount_ms' = now
        /\ s_last_rx_ms' = 0
        /\ s_recover_attempts' = 0
        /\ s_backoff_ms' = USB_RECOVER_BACKOFF_START_MS
        /\ ~s_first_rx_logged'
        /\ ~s_first_tx_logged'
        /\ s_event_occurred'["USB_MOUNTED"]
C24_AfterMount == [][C24_Step]_vars

\* A step that is a netif_recv_callback which took its frame, in a mount
\* cycle.
RxStep == s_rx_packets' = s_rx_packets + 1 /\ s_usb_mounted

\* C25: in every mount cycle, also one whose tud_mount_cb followed no
\* tud_umount_cb, the first netif_recv_callback after the mount records
\* FIRST_RX, and no later one of the cycle does.
C25_Step ==
    /\ (RxStep /\ ~rxSinceMount) =>
          (~s_first_rx_logged /\ s_first_rx_logged' /\ s_event_occurred'["FIRST_RX"])
    /\ (RxStep /\ rxSinceMount) => s_first_rx_logged
C25_FirstRxPerCycle == [][C25_Step]_vars

\* C26: from tud_suspend_cb to the next tud_resume_cb the link stays down
\* and no link-up is signalled to the driver: no watchdog tick of that time
\* ends a kick or a recovery sequence with the link up.
C26_SuspendedLinkDown == suspended => (~s_link_up /\ linkSignal # TRUE)

\* A step that appends a USB_RESUMED record: a tud_resume_cb call.
ResumeRecorded ==
    /\ Len(s_events') = Len(s_events) + 1
    /\ s_events'[Len(s_events')].type = "USB_RESUMED"

\* C27: tud_resume_cb records USB_RESUMED and starts the kick sequence only
\* if the session is mounted and the stack ready when it is called.
C27_Step ==
    /\ ResumeRecorded => (s_usb_mounted /\ s_stack_ready)
    /\ (usbPc = "idle" /\ usbPc' = "resume_kick_up") => (s_usb_mounted /\ s_stack_ready)
C27_ResumeOnlyWhenMountedReady == [][C27_Step]_vars

\* A step that appends an NCM_LINK_UP record.
LinkUpRecorded ==
    /\ Len(s_events') = Len(s_events) + 1
    /\ s_events'[Len(s_events')].type = "NCM_LINK_UP"

\* C28: NCM_LINK_UP is recorded only by a usb_set_link_state call that takes
\* s_link_up from false to true, however the kick sequences of
\* tud_resume_cb and of the watchdog interleave; a step that takes the link
\* down records no NCM_LINK_UP.
C28_Step ==
    /\ LinkUpRecorded => (~s_link_up /\ s_link_up')
    /\ (s_link_up /\ ~s_link_up') => ~LinkUpRecorded
C28_LinkUpRecordedOnTransition == [][C28_Step]_vars

\* C29: usb_set_link_state forwards its argument to the driver on every
\* call, so that with no call in progress the link signal the driver got
\* last equals s_link_up, also after calls of the two tasks overlapped.
C29_SignalMatchesLinkUp ==
    ((\A task \in LinkTasks : slPc[task] = "idle") /\ slCalls > 0) => linkSignal = s_link_up

\* A watchdog step that leaves the position pc.
WdLeaves(pc) == wdPc = pc /\ wdPc' # pc
\* Every tud_disconnect of the watchdog is followed by one tud_connect.
Paired(calls) ==
    \A i \in 1..Len(calls) :
        calls[i] = IF i % 2 = 1 THEN "tud_disconnect" ELSE "tud_connect"

\* C30: a recovery sequence signals link-down, calls tud_disconnect, calls
\* tud_connect, resets s_mount_ms and s_last_rx_ms, signals link-down and
\* signals link-up, in this order; tud_disconnect comes after a link-down
\* signal, each tud_disconnect is followed by one tud_connect before the
\* watchdog's next tick, and a sequence adds one to s_recover_attempts.
C30_Step ==
    /\ (wdPc = "check" /\ wdPc' = "rec_down") => s_recover_attempts' = s_recover_attempts + 1
    /\ (wdPc' # wdPc /\ wdPc' # "rec_down") => s_recover_attempts' = s_recover_attempts
    /\ WdLeaves("rec_down") =>
          /\ wdPc' = "connect"
          /\ linkSignal' = FALSE /\ ~s_link_up'
          /\ drvCalls' = Append(drvCalls, "tud_disconnect")
    /\ WdLeaves("connect") =>
          /\ wdPc' = "post_down"
          /\ drvCalls' = Append(drvCalls, "tud_connect")
          /\ s_mount_ms' = now /\ s_last_rx_ms' = 0
          /\ UNCHANGED linkSignal
    /\ WdLeaves("post_down") =>
          /\ wdPc' = "post_up"
          /\ linkSignal' = FALSE /\ ~s_link_up'
          /\ UNCHANGED drvCalls
    /\ WdLeaves("post_up") =>
          /\ wdPc' = "backoff"
          /\ linkSignal' = TRUE /\ s_link_up'
          /\ UNCHANGED drvCalls
    /\ WdLeaves("backoff") => (wdPc' = "top" /\ UNCHANGED <<drvCalls, linkSignal>>)
    /\ (drvCalls' # drvCalls) => (wdPc \in {"rec_down", "connect"} /\ wdPc' # wdPc)
    /\ Paired(drvCalls')
    /\ (Len(drvCalls') % 2 = 1) <=> (wdPc' = "connect")
KickSlack == USB_RECOVER_DETACH_MS + USB_RECOVER_POST_ATTACH_MS + USB_LINK_KICK_DELAY_MS
\* A step that takes the link up / a step that begins the delay of a kick.
LinkRaised == ~s_link_up /\ s_link_up'
KickBegins ==
    \/ wdPc # "kick_up" /\ wdPc' = "kick_up"
    \/ wdPc # "post_up" /\ wdPc' = "post_up"
    \/ usbPc # "resume_kick_up" /\ usbPc' = "resume_kick_up"
KickEnds ==
    \/ wdPc = "kick_up" /\ wdPc' # "kick_up"
    \/ wdPc = "post_up" /\ wdPc' # "post_up"
    \/ usbPc = "resume_kick_up" /\ usbPc' # "resume_kick_up"

\* C31: once the device is mounted and the stack ready, whichever came
\* first, the link comes up unless a tud_umount_cb or tud_suspend_cb follows,
\* given that the watchdog is scheduled; and the link is only ever raised
\* by the second half of a kick sequence, whose first half signalled
\* link-down.
C31_Step ==
    /\ LinkRaised => (KickEnds /\ linkSignal = FALSE /\ linkSignal' = TRUE)
    /\ KickBegins => (linkSignal' = FALSE /\ ~s_link_up')
C31_Pending == s_usb_mounted /\ s_stack_ready /\ now <= MaxTimeKick - KickSlack
C31_KickBringsLinkUp ==
    /\ [][C31_Step]_vars
    /\ C31_Pending ~> (s_link_up \/ ~s_usb_mounted \/ suspended)
\* The stack became ready after the mount and the watchdog's kick, down then
\* up, raised the link.
C31_Witness ==
    /\ s_link_up /\ s_usb_mounted /\ s_stack_ready
    /\ kickSeq = <<FALSE, TRUE>>
    /\ Len(s_events) >= 2
    /\ s_events[1].type = "USB_MOUNTED"
    /\ s_events[2].type = "NETIF_READY"

\* C32: whenever the watchdog is not inside a recovery sequence,
\* s_backoff_ms is min(floor * 2^s_recover_attempts, ceiling), for any
\* interleaving of tud_mount_cb with recovery sequences; hence it lies
\* between the floor and the ceiling in every state.
C32_BackoffMatchesAttempts ==
    /\ ~InRecovery =>
          s_backoff_ms = Min(USB_RECOVER_BACKOFF_START_MS * 2 ^ s_recover_attempts,
                             USB_RECOVER_BACKOFF_MAX_MS)
    /\ USB_RECOVER_BACKOFF_START_MS <= s_backoff_ms
    /\ s_backoff_ms <= USB_RECOVER_BACKOFF_MAX_MS

\* A step in which the watchdog calls tud_disconnect / decides on a recovery
\* sequence.
DisconnectStep == drvCalls' = Append(drvCalls, "tud_disconnect")
RecoveryStarts == wdPc = "check" /\ wdPc' = "rec_down"

\* C33: the watchdog starts a recovery sequence only when no frame was
\* received in the current mount cycle: once netif_recv_callback has run
\* after the most recent tud_mount_cb, no tick decides on a recovery and none
\* calls tud_disconnect, however the callback interleaves with a tick or
\* with a sequence in progress.
C33_Step ==
    /\ RecoveryStarts => ~rxSinceMount
    /\ DisconnectStep => ~rxSinceMount
C33_NoRecoveryAfterRx == [][C33_Step]_vars

\* A step that is a netif_recv_callback which took its frame; the frame's
\* bytes.
RxBufferStep == rxOp'.n = rxOp.n + 1 /\ s_netif
\* The frame is a DHCP client request: long enough, IPv4, UDP, from port 68
\* to port 67.
IsDiscover(b) ==
    /\ Len(b) >= 42
    /\ b[13] = 8 /\ b[14] = 0
    /\ b[24] = 17
    /\ b[35] = 0 /\ b[36] = 68
    /\ b[37] = 0 /\ b[38] = 67
DhcpTypes == {"DHCP_DISCOVER_RX", "DHCP_OFFER_TX", "DHCP_REQUEST_RX", "DHCP_ACK_TX",
              "DHCP_ASSIGNED"}
\* The records the step appended.
NewEvents == SubSeq(s_events', Len(s_events) + 1, Len(s_events'))

\* C34: netif_recv_callback records DHCP_DISCOVER_RX if and only if the
\* frame has at least 42 bytes, ethertype 0x0800 at offset 12, protocol 17
\* at offset 23, source port 68 at offset 34 and destination port 67 at
\* offset 36; for every other frame it records no DHCP event; for every
\* frame it reads no byte at or beyond the frame's length and sets
\* s_last_rx_ms to the clock.
C34_Step ==
    RxBufferStep =>
        /\ IsDiscover(rxOp'.buffer) =>
              /\ s_event_occurred'["DHCP_DISCOVER_RX"]
              /\ Len(s_events) + 2 <= MAX_EVENTS =>
                    /\ NewEvents # <<>>
                    /\ NewEvents[Len(NewEvents)].type = "DHCP_DISCOVER_RX"
                    /\ NewEvents[Len(NewEvents)].timestamp_ms = now
        /\ ~IsDiscover(rxOp'.buffer) =>
              /\ \A ty \in DhcpTypes : s_event_occurred'[ty] = s_event_occurred[ty]
              /\ \A i \in 1..Len(NewEvents) : NewEvents[i].type \notin DhcpTypes
        /\ \A off \in rxOp'.reads : off < Len(rxOp'.buffer)
        /\ s_last_rx_ms' = now
        /\ s_rx_packets' = s_rx_packets + 1
C35_Oldest == Len(appended) - Min(Len(appended), LOG_BUFFER_LINES) + 1
\* The first k resident lines, oldest first, each followed by a newline.
C35_Prefix(k) == C10_Lines(C35_Oldest, C35_Oldest + k - 1)
\* A C string of n characters fits a buffer of size bytes with its terminator.
C35_Fits(n, size) == n + 1 <= size
\* The number of lines of the longest prefix that fits.
C35_Longest(size) ==
    CHOOSE k \in 0..Min(Len(appended), LOG_BUFFER_LINES) :
        /\ C35_Fits(Len(C35_Prefix(k)), size)
        /\ \A j \in (k + 1)..Min(Len(appended), LOG_BUFFER_LINES) :
              ~C35_Fits(Len(C35_Prefix(j)), size)

\* C35: for every buffer size of at least 1, log_buffer_get_all writes at
\* most buf_size bytes with the terminator, returns the length of its
\* output, which is less than buf_size, and with the mutex taken its output
\* is the longest run of whole resident lines, oldest first and each
\* followed by a newline, that fits: a line that does not fit is left out
\* with every newer line.
C35_DumpFitsBuffer ==
    dumpSize >= 1 =>
        /\ dumpRet < dumpSize
        /\ dumpRet = Len(dumpOut)
        /\ C35_Fits(Len(dumpOut), dumpSize)
        /\ dumpLocked => dumpOut = C35_Prefix(C35_Longest(dumpSize))
        /\ ~dumpLocked => dumpOut = <<>>
\* The buffer has wrapped and a dump, into a buffer with one byte to spare,
\* stopped before a resident line that did not fit.
C35_Witness ==
    /\ dumpLocked
    /\ Len(appended) > LOG_BUFFER_LINES
    /\ C35_Longest(dumpSize) \in 1..(LOG_BUFFER_LINES - 1)
    /\ dumpRet = Len(C35_Prefix(C35_Longest(dumpSize)))
    /\ dumpRet + 2 = dumpSize

\* C36: for every buffer size of at least 1 and every content of the event
\* log, event_log_get_all and event_log_get_status_json write only inside
\* the caller's buffer and return a count smaller than the size, also for
\* sizes below the 100 and 50 bytes their loops subtract.
C36_RenderInsideBuffer ==
    renderOp.op # "none" =>
        /\ renderOp.ret < renderOp.size
        /\ renderOp.hi <= renderOp.size

\* C37: in every reachable state s_link_up implies s_stack_ready, and no
\* link-up has been signalled to the driver before the stack was started
\* (the driver has no signal at all before network_init's boot_init);
\* s_stack_ready never returns to false.
C37_Step == s_stack_ready => s_stack_ready'
C37_LinkUpImpliesStackReady ==
    /\ [](s_link_up => s_stack_ready)
    /\ []((initPc # "install" /\ linkSignal = TRUE) => s_stack_ready)
    /\ [][C37_Step]_vars
\* The host resumed the mounted device before the stack was ready, and the
\* link came up only after network_init had started the stack.
C37_Witness ==
    /\ s_link_up /\ s_stack_ready /\ linkSignal = TRUE
    /\ Len(s_events) >= 4
    /\ s_events[1].type = "USB_MOUNTED"
    /\ s_events[2].type = "USB_RESUMED"
    /\ s_events[3].type = "NETIF_READY"
    /\ s_events[4].type = "NCM_LINK_UP"

\* The text the holder of reader r's returned pointer reads now: up to the
\* returned length of what the slot holds.
C38_Seen(r) ==
    LET slot == s_log_buffer[readPtr[r]]
    IN  SubSeq(slot, 1, Min(readLen[r], Len(slot)))
\* C38: from the return of a log_buffer_read call that handed a line to an
\* active reader until that reader's next call, the text at the returned
\* pointer is the appended line it was handed (as kept); no log_buffer_add
\* in between overwrites the returned slot, also when the reader was a full
\* capacity behind and the returned slot is the next one to be written.
C38_HandedLineStays ==
    \A r \in ReaderIds :
        (s_reader_active[r] /\ readPtr[r] \in LogSlots /\ lastGot[r] > 0)
            => C38_Seen(r) = C10_Kept(appended[lastGot[r]])

\* The steps that are calls of the two interfaces.
EvtCallStep == evOp'.n = evOp.n + 1
RenderStep == renderOp.op = "none" /\ renderOp'.op # "none"
LogCallStep == logOp'.n = logOp.n + 1
DumpStep == dumpSize = -1 /\ dumpSize' # -1
\* Nothing is stored in the event log, and nothing in the log stream.
EventLogEmpty(events, occurred) ==
    events = <<>> /\ \A e \in EventTypes : ~occurred[e]
LogStreamEmpty ==
    /\ appended = <<>> /\ s_total_written = 0 /\ s_write_idx = 0
    /\ \A i \in LogSlots : s_log_buffer[i] = <<>> /\ s_log_lengths[i] = 0
    /\ \A r \in ReaderIds : ~s_reader_active[r] /\ readPtr[r] = -1
\* C39: before event_log_init has run no step stores anything in the event
\* log, whoever records (a caller, network_init or a driver callback):
\* event_log_record stores nothing, event_log_has returns false,
\* event_log_get_all and event_log_get_status_json write nothing and return
\* 0; before log_buffer_init has run log_buffer_add stores nothing,
\* log_buffer_alloc_reader returns -1, log_buffer_read returns NULL and
\* log_buffer_get_all returns 0 bytes; and event_log_init leaves the log
\* empty, so that events recorded before it are absent after it.
C39_Step ==
    /\ (~evt_mutex /\ ~evt_mutex') => UNCHANGED <<s_events, s_event_occurred>>
    /\ (~evt_mutex /\ EvtCallStep) => (~evOp'.ok /\ evOp'.ret = FALSE)
    /\ (~evt_mutex /\ RenderStep) => (renderOp'.ret = 0 /\ renderOp'.hi = 0)
    /\ (~evt_mutex /\ evt_mutex') => EventLogEmpty(s_events', s_event_occurred')
    /\ (~log_mutex /\ ~log_mutex') =>
           UNCHANGED <<s_log_buffer, s_log_lengths, s_write_idx, s_total_written,
                       s_reader_pos, s_reader_active, appended>>
    /\ (~log_mutex /\ LogCallStep) =>
           /\ ~logOp'.ok
           /\ logOp'.op = "alloc" => logOp'.id = -1
           /\ (logOp'.op = "read" /\ logOp'.id \in ReaderIds) =>
                  (readPtr'[logOp'.id] = -1 /\ readLen'[logOp'.id] = 0)
    /\ (~log_mutex /\ DumpStep) => (dumpRet' = 0 /\ dumpOut' = <<>> /\ ~dumpLocked')
C39_NoOpBeforeInit ==
    /\ [](~evt_mutex => EventLogEmpty(s_events, s_event_occurred))
    /\ [](~log_mutex => LogStreamEmpty)
    /\ [][C39_Step]_vars
\* The driver was installed, the stack started and the device mounted before
\* event_log_init ran: after it the log is empty and event_log_has reports
\* no mount; the log stream, still uninitialised, has refused a reader.
C39_Witness ==
    /\ evt_mutex /\ ~log_mutex
    /\ s_usb_mounted /\ initPc = "done"
    /\ EventLogEmpty(s_events, s_event_occurred)
    /\ evOp.op = "has" /\ evOp.type = "USB_MOUNTED" /\ evOp.ok /\ evOp.ret = FALSE
    /\ logOp.op = "alloc" /\ logOp.id = -1 /\ ~logOp.ok

\* The watchdog evaluates the conditions of line 299 or of line 306.
WdEvaluates == wdPc \in {"top", "check"} /\ wdPc' # wdPc
\* C40: a watchdog step that evaluates its conditions and finds the device
\* unmounted or the stack not ready starts neither the kick nor a recovery
\* sequence: it signals no link state, calls neither tud_disconnect nor
\* tud_connect, records no event, and leaves s_link_up, s_mount_ms,
\* s_last_rx_ms, s_recover_attempts, s_backoff_ms and s_last_recover_ms
\* unchanged.
C40_Step ==
    (WdEvaluates /\ ~(s_usb_mounted /\ s_stack_ready)) =>
        /\ wdPc' = IF wdPc = "top" THEN "check" ELSE "top"
        /\ UNCHANGED <<linkSignal, drvCalls, s_events, s_event_occurred, s_link_up,
                       s_mount_ms, s_last_rx_ms, s_recover_attempts, s_backoff_ms,
                       s_last_recover_ms>>
C40_IdleTickWhenUnmounted == [][C40_Step]_vars
\* The device was mounted and unmounted again, and the watchdog has since
\* completed a tick whose t was sampled after the unmount.
C40_Witness ==
    /\ ~s_usb_mounted /\ s_stack_ready /\ ~s_link_up
    /\ wdPc = "top" /\ wdWake >= t + USB_RECOVER_LOOP_PERIOD_MS
    /\ Len(s_events) >= 2
    /\ s_event_occurred["USB_MOUNTED"]
    /\ s_events[Len(s_events)].type = "USB_UNMOUNTED"
    /\ t > s_events[Len(s_events)].timestamp_ms

====
